---- MODULE Spec2Model ----
(***************************************************************************)
(* A model of adfmd: the conversion between ADF (Atlassian Document        *)
(* Format) trees and Markdown text.                                        *)
(*                                                                         *)
(* Representation.                                                         *)
(*  - A Python str is a sequence of atoms.  An atom is a TLA+ string that  *)
(*    stands for one character the code's regular expressions tell apart   *)
(*    ("*", "[", "|", a space, a newline, a backtick, ...), for one fixed  *)
(*    piece of marker syntax ("<!-- ADF:", "-->", "<br/>") or for one word *)
(*    of ordinary characters ("a", "nested-table-").  The strings of the   *)
(*    model are the ones whose characters split into their atoms in one    *)
(*    way only.                                                            *)
(*  - A Python dict is a record whose domain is the set of keys present.   *)
(*    JSON null is the record Null.                                        *)
(*  - An Optional field of a dataclass is a sequence of length 0 (None) or *)
(*    1 (the value).                                                       *)
(*  - A call that may raise returns [ok |-> TRUE, v |-> value] or          *)
(*    [ok |-> FALSE, err |-> exception class, msg |-> message, ...].       *)
(***************************************************************************)
EXTENDS Integers, Sequences, FiniteSets, TLC

(***************************************************************************)
(* Atoms                                                                   *)
(***************************************************************************)
NL == "\n"
SP == " "
QUOTE == "\""
OPEN == "<!-- ADF:"
ENDOPEN == "<!-- /ADF:"
CLOSE == "-->"
BR == "<br/>"
BACKTICK == "BACKTICK"

\* Atoms that hold the character ">" (START_MARKER_RE's [^>]* stops at them).
GtAtoms == {CLOSE, BR, ">", "</a>"}

\* Atoms \s matches.
Whitespace == {SP, NL}

\* Atoms a regex name class [a-zA-Z0-9_-]+ accepts as a whole.
NameAtoms ==
  {"doc", "text", "paragraph", "table", "tableCell", "tableHeader", "tableRow",
   "extension", "nested-table", "status", "mention", "date", "emoji",
   "panel", "expand", "nestedExpand", "mediaSingle", "mediaGroup", "media",
   "mediaInline", "caption",
   "marks", "version", "ref", "extensionType", "extensionKey", "id", "color",
   "timestamp", "userType", "accessLevel", "colspan", "rowspan", "colwidth",
   "background", "width", "layout", "displayMode", "isNumberColumnEnabled",
   "name", "underline", "subsup", "textColor", "backgroundColor", "sub",
   "panelType", "title", "collection", "type", "alt", "height", "widthType",
   "borderSize", "borderColor", "shortName", "language",
   "strong", "em", "code", "strike", "link",
   "a", "b", "c", "d", "e", "n", "s", "u", "nested-table-", "-",
   "0", "1", "2", "3", "4", "5", "6", "7", "8", "9", "default"}

Digits == <<"0", "1", "2", "3", "4", "5", "6", "7", "8", "9">>

(***************************************************************************)
(* Results and dictionaries                                                *)
(***************************************************************************)
Null == [null |-> TRUE]
EmptyDict == [k \in {} |-> <<>>]
None == <<>>
Some(v) == <<v>>

Ok(v) == [ok |-> TRUE, v |-> v]
Err(cls, msg) == [ok |-> FALSE, err |-> cls, msg |-> msg]

\* dict.get(key, default)
Get(d, key, default) == IF key \in DOMAIN d THEN d[key] ELSE default
\* dict.get(key) as an Optional
Opt(d, key) == IF key \in DOMAIN d THEN Some(d[key]) ELSE None
Has(d, key) == key \in DOMAIN d

\* name = value, and then the rest: Let(value, LAMBDA name : rest).  The
\* value is evaluated once, as the assignment of the code is.
Let(value, rest(_)) == rest(value)

(***************************************************************************)
(* str operations on atom sequences                                        *)
(***************************************************************************)
Min(S) == CHOOSE i \in S : \A j \in S : i <= j
Max(S) == CHOOSE i \in S : \A j \in S : i >= j

RECURSIVE Cat(_)
\* "".join(parts)
Cat(parts) == IF parts = <<>> THEN <<>> ELSE Head(parts) \o Cat(Tail(parts))

RECURSIVE JoinWith(_, _)
\* sep.join(parts)
JoinWith(sep, parts) ==
  IF parts = <<>> THEN <<>>
  ELSE IF Len(parts) = 1 THEN parts[1]
  ELSE parts[1] \o sep \o JoinWith(sep, Tail(parts))

RECURSIVE First(_, _, _)
\* The first index i >= from with s[i] = a, or 0.
First(s, a, from) ==
  IF from > Len(s) THEN 0
  ELSE IF s[from] = a THEN from
  ELSE First(s, a, from + 1)

RECURSIVE FirstNot(_, _, _)
\* The first index i >= from with s[i] # a, or Len(s) + 1.
FirstNot(s, a, from) ==
  IF from > Len(s) THEN from
  ELSE IF s[from] # a THEN from
  ELSE FirstNot(s, a, from + 1)

IsAt(s, pat, i) ==
  /\ i >= 1
  /\ i + Len(pat) - 1 <= Len(s)
  /\ \A k \in 1..Len(pat) : s[i + k - 1] = pat[k]

RECURSIVE Find(_, _, _)
\* s.find(pat, from): the first index i >= from where pat occurs, or 0.
Find(s, pat, from) ==
  IF from + Len(pat) - 1 > Len(s) THEN 0
  ELSE IF IsAt(s, pat, from) THEN from
  ELSE Find(s, pat, from + 1)

StartsWith(s, pat) == IsAt(s, pat, 1)
EndsWith(s, pat) == Len(pat) <= Len(s) /\ IsAt(s, pat, Len(s) - Len(pat) + 1)
From(s, i) == SubSeq(s, i, Len(s))

RECURSIVE SplitOn(_, _)
\* s.split(a) for a one-atom separator
SplitOn(s, a) ==
  LET i == First(s, a, 1)
  IN  IF i = 0 THEN <<s>>
      ELSE <<SubSeq(s, 1, i - 1)>> \o SplitOn(From(s, i + 1), a)

RECURSIVE Replace(_, _, _)
\* s.replace(pat, by)
Replace(s, pat, by) ==
  LET i == Find(s, pat, 1)
  IN  IF i = 0 THEN s
      ELSE SubSeq(s, 1, i - 1) \o by \o Replace(From(s, i + Len(pat)), pat, by)

RECURSIVE RStripSet(_, _)
RStripSet(s, chars) ==
  IF s # <<>> /\ s[Len(s)] \in chars THEN RStripSet(SubSeq(s, 1, Len(s) - 1), chars)
  ELSE s

RECURSIVE LStripSet(_, _)
LStripSet(s, chars) ==
  IF s # <<>> /\ s[1] \in chars THEN LStripSet(Tail(s), chars) ELSE s

\* s.rstrip(), s.lstrip(), s.strip()
RStrip(s) == RStripSet(s, Whitespace)
LStrip(s) == LStripSet(s, Whitespace)
Strip(s) == LStrip(RStrip(s))

\* s.splitlines()
splitlines(s) ==
  IF s = <<>> THEN <<>>
  ELSE LET parts == SplitOn(s, NL)
       IN  IF parts[Len(parts)] = <<>> THEN SubSeq(parts, 1, Len(parts) - 1)
           ELSE parts

RECURSIVE NumStr(_)
\* str(n) for a natural number
NumStr(n) ==
  IF n < 10 THEN <<Digits[n + 1]>>
  ELSE NumStr(n \div 10) \o <<Digits[(n % 10) + 1]>>

RECURSIVE DigitsValue(_)
\* int(s) for a string of digits
DigitsValue(atoms) ==
  IF atoms = <<>> THEN 0
  ELSE 10 * DigitsValue(SubSeq(atoms, 1, Len(atoms) - 1))
         + (CHOOSE d \in 0..9 : Digits[d + 1] = atoms[Len(atoms)])

SeqToSet(s) == {s[i] : i \in 1..Len(s)}

(***************************************************************************)
(* nodes.py: the dataclasses and ADFNode.from_dict                         *)
(***************************************************************************)
\* The discriminators ADFNode.from_dict dispatches on.
FromDictTypes ==
  {"text", "paragraph", "bulletList", "orderedList", "listItem", "heading",
   "hardBreak", "inlineCard", "rule", "date", "doc", "status", "mention",
   "table", "tableRow", "tableCell", "tableHeader", "extension",
   "blockquote", "codeBlock", "emoji", "panel", "mediaSingle", "mediaGroup",
   "media", "mediaInline", "caption"}

\* attrs = data.get("attrs", {}); if attrs is None: attrs = {}
AttrsOrEmpty(data) ==
  LET a == Get(data, "attrs", EmptyDict)
  IN  IF a = Null THEN EmptyDict ELSE a

\* data.get("attrs", {}).get(key): an AttributeError when attrs is null
RawAttr(data, key) ==
  LET a == Get(data, "attrs", EmptyDict)
  IN  IF a = Null THEN Err("AttributeError", "'NoneType' object has no attribute 'get'")
      ELSE Ok(Opt(a, key))

\* The marks of a text node's data that are of the given type.
MarksOfType(data, t) ==
  SelectSeq(Get(data, "marks", <<>>), LAMBDA m : Get(m, "type", "None") = t)

\* The loop of TextNode.from_dict: the last mark of the type decides.
MarkAttr(data, t, key) ==
  LET ms == MarksOfType(data, t)
  IN  IF ms = <<>> THEN None
      ELSE Opt(Get(ms[Len(ms)], "attrs", EmptyDict), key)

TextNode_from_dict(data) ==
  LET all == Get(data, "marks", <<>>)
      kept == SelectSeq(all, LAMBDA m : Get(m, "type", "None") # "link")
  IN  Ok([type |-> "text",
          text |-> Get(data, "text", <<>>),
          marks |-> [i \in 1..Len(kept) |-> Get(kept[i], "type", "None")],
          url |-> MarkAttr(data, "link", "href"),
          subsup |-> MarkAttr(data, "subsup", "type"),
          background_color |-> MarkAttr(data, "backgroundColor", "color"),
          text_color |-> MarkAttr(data, "textColor", "color")])

RECURSIVE from_dict(_)

\* children = [ADFNode.from_dict(item) for item in data.get("content", [])]:
\* the first child that raises aborts the loop.
ChildrenFromDict(data) ==
  LET items == Get(data, "content", <<>>)
  IN  Let([i \in 1..Len(items) |-> from_dict(items[i])], LAMBDA rs :
      LET bad == {i \in 1..Len(items) : ~rs[i].ok}
      IN  IF bad = {} THEN Ok([i \in 1..Len(items) |-> rs[i].v])
          ELSE rs[Min(bad)])

\* A node kind that only holds children.
ContainerFromDict(data, kind) ==
  Let(ChildrenFromDict(data), LAMBDA cs :
  IF cs.ok THEN Ok([type |-> kind, children |-> cs.v]) ELSE cs)

CodeBlockNode_from_dict(data) ==
  LET attrs == AttrsOrEmpty(data)
      items == SelectSeq(Get(data, "content", <<>>),
                         LAMBDA item : Get(item, "type", "None") = "text")
  IN  Ok([type |-> "codeBlock",
          language |-> Opt(attrs, "language"),
          text |-> JoinWith(<<NL>>, [i \in 1..Len(items) |-> Get(items[i], "text", <<>>)])])

EmojiNode_from_dict(data) ==
  LET attrs == AttrsOrEmpty(data)
  IN  Ok([type |-> "emoji", short_name |-> Opt(attrs, "shortName"),
          id |-> Opt(attrs, "id"), text |-> Opt(attrs, "text")])

PanelNode_from_dict(data) ==
  LET attrs == AttrsOrEmpty(data)
  IN  Let(ChildrenFromDict(data), LAMBDA cs :
      IF cs.ok
      THEN Ok([type |-> "panel", panel_type |-> Opt(attrs, "panelType"), children |-> cs.v])
      ELSE cs)

HeadingNode_from_dict(data) ==
  LET level == RawAttr(data, "level")
  IN  Let(ChildrenFromDict(data), LAMBDA cs :
      IF ~level.ok THEN level
      ELSE IF level.v = None
      THEN Err("ValueError", "Level is required for heading nodes")
      ELSE IF cs.ok THEN Ok([type |-> "heading", level |-> level.v[1], children |-> cs.v])
      ELSE cs)

InlineCardNode_from_dict(data) ==
  LET attrs == AttrsOrEmpty(data)
      direct == Get(attrs, "url", <<>>)
      nested == Get(Get(attrs, "data", EmptyDict), "url", <<>>)
      url == IF direct # <<>> THEN direct ELSE nested
  IN  IF url = <<>> THEN Err("ValueError", "URL is required for inlineCard nodes")
      ELSE Ok([type |-> "inlineCard", url |-> url])

DateNode_from_dict(data) ==
  LET timestamp == RawAttr(data, "timestamp")
  IN  IF ~timestamp.ok THEN timestamp
      ELSE IF timestamp.v = None
      THEN Err("ValueError", "Timestamp is required for date nodes")
      ELSE Ok([type |-> "date", timestamp |-> timestamp.v[1]])

DocNode_from_dict(data) ==
  Let(ChildrenFromDict(data), LAMBDA cs :
  IF cs.ok THEN Ok([type |-> "doc", version |-> Opt(data, "version"), children |-> cs.v])
  ELSE cs)

StatusNode_from_dict(data) ==
  LET attrs == AttrsOrEmpty(data)
  IN  IF ~Has(attrs, "text") THEN Err("ValueError", "Text is required for status nodes")
      ELSE IF ~Has(attrs, "color") THEN Err("ValueError", "Color is required for status nodes")
      ELSE Ok([type |-> "status", text |-> attrs.text, color |-> Some(attrs.color),
               local_id |-> None])

MentionNode_from_dict(data) ==
  LET attrs == AttrsOrEmpty(data)
  IN  IF ~Has(attrs, "id") THEN Err("ValueError", "ID is required for mention nodes")
      ELSE Ok([type |-> "mention", id |-> attrs.id, text |-> Opt(attrs, "text"),
               user_type |-> Opt(attrs, "userType"),
               access_level |-> Opt(attrs, "accessLevel")])

TableNode_from_dict(data) ==
  Let(ChildrenFromDict(data), LAMBDA cs :
  LET attrs == AttrsOrEmpty(data)
  IN  IF cs.ok
      THEN Ok([type |-> "table", children |-> cs.v,
               is_number_column_enabled |-> Opt(attrs, "isNumberColumnEnabled"),
               width |-> Opt(attrs, "width"),
               layout |-> Opt(attrs, "layout"),
               display_mode |-> Opt(attrs, "displayMode")])
      ELSE cs)

\* TableCellNode.from_dict and TableHeaderNode.from_dict
TableCellNode_from_dict(data, kind) ==
  Let(ChildrenFromDict(data), LAMBDA cs :
  LET attrs == AttrsOrEmpty(data)
  IN  IF cs.ok
      THEN Ok([type |-> kind, children |-> cs.v,
               background |-> Opt(attrs, "background"),
               colwidth |-> Opt(attrs, "colwidth"),
               colspan |-> Opt(attrs, "colspan"),
               rowspan |-> Opt(attrs, "rowspan")])
      ELSE cs)

ExtensionNode_from_dict(data) ==
  LET attrs == AttrsOrEmpty(data)
  IN  IF ~Has(attrs, "extensionType")
      THEN Err("ValueError", "extensionType is required for extension nodes")
      ELSE IF ~Has(attrs, "extensionKey")
      THEN Err("ValueError", "extensionKey is required for extension nodes")
      ELSE Ok([type |-> "extension",
               extension_type |-> attrs.extensionType,
               extension_key |-> attrs.extensionKey,
               text |-> Opt(attrs, "text"),
               parameters |-> Opt(attrs, "parameters")])

MediaSingleNode_from_dict(data) ==
  LET attrs == AttrsOrEmpty(data)
  IN  Let(ChildrenFromDict(data), LAMBDA cs :
      IF cs.ok
      THEN Ok([type |-> "mediaSingle", layout |-> Opt(attrs, "layout"),
               width |-> Opt(attrs, "width"), width_type |-> Opt(attrs, "widthType"),
               children |-> cs.v])
      ELSE cs)

\* The message of the ValueError of MediaNode.from_dict / MediaInlineNode.from_dict
MediaRequired(field, kind) ==
  IF kind = "media"
  THEN CASE field = "id" -> "ID is required for media nodes"
         [] field = "collection" -> "Collection is required for media nodes"
         [] OTHER -> "Type is required for media nodes"
  ELSE CASE field = "id" -> "ID is required for mediaInline nodes"
         [] field = "collection" -> "Collection is required for mediaInline nodes"
         [] OTHER -> "Type is required for mediaInline nodes"

\* MediaNode.from_dict and MediaInlineNode.from_dict
MediaNode_from_dict(data, kind) ==
  LET attrs == AttrsOrEmpty(data)
  IN  IF ~Has(attrs, "id") THEN Err("ValueError", MediaRequired("id", kind))
      ELSE IF ~Has(attrs, "collection")
      THEN Err("ValueError", MediaRequired("collection", kind))
      ELSE IF ~Has(attrs, "type") THEN Err("ValueError", MediaRequired("type", kind))
      ELSE Ok([type |-> kind, id |-> attrs.id, collection |-> attrs.collection,
               media_type |-> attrs.type])

from_dict(data) ==
  LET node_type == Get(data, "type", "None")
  IN  CASE node_type = "text" -> TextNode_from_dict(data)
        [] node_type \in {"paragraph", "bulletList", "orderedList", "listItem",
                          "tableRow", "blockquote", "mediaGroup", "caption"}
             -> ContainerFromDict(data, node_type)
        [] node_type = "heading" -> HeadingNode_from_dict(data)
        [] node_type = "hardBreak" -> Ok([type |-> "hardBreak"])
        [] node_type = "inlineCard" -> InlineCardNode_from_dict(data)
        [] node_type = "rule" -> Ok([type |-> "rule"])
        [] node_type = "date" -> DateNode_from_dict(data)
        [] node_type = "doc" -> DocNode_from_dict(data)
        [] node_type = "status" -> StatusNode_from_dict(data)
        [] node_type = "mention" -> MentionNode_from_dict(data)
        [] node_type = "table" -> TableNode_from_dict(data)
        [] node_type \in {"tableCell", "tableHeader"} -> TableCellNode_from_dict(data, node_type)
        [] node_type = "extension" -> ExtensionNode_from_dict(data)
        [] node_type = "codeBlock" -> CodeBlockNode_from_dict(data)
        [] node_type = "emoji" -> EmojiNode_from_dict(data)
        [] node_type = "panel" -> PanelNode_from_dict(data)
        [] node_type = "mediaSingle" -> MediaSingleNode_from_dict(data)
        [] node_type \in {"media", "mediaInline"} -> MediaNode_from_dict(data, node_type)
        [] OTHER -> [ok |-> FALSE, err |-> "ValueError",
                     msg |-> "Unsupported node type", arg |-> node_type]

(***************************************************************************)
(* converter/adf2md.py: the ADF to Markdown converters                     *)
(*                                                                         *)
(* kw is the **kwargs of a convert call.  The objects the kwargs share by  *)
(* reference (the nested_table_counter dict, the nested_tables list and    *)
(* the new_rowspans list) are threaded as st: a convert call returns       *)
(* [ok |-> TRUE, text |-> str, st |-> the objects after the call] or an    *)
(* error.  has_counter, has_nested_tables and has_rowspans say whether the *)
(* key is present in kwargs.                                               *)
(***************************************************************************)
DefaultKw ==
  [no_newlines |-> FALSE, indent_level |-> 0, inside_table |-> FALSE,
   has_nested_tables |-> FALSE, has_counter |-> FALSE, has_rowspans |-> FALSE,
   active_rowspans |-> <<>>]

FreshSt == [count |-> 0, nested_tables |-> <<>>, new_rowspans |-> <<>>]

R(text, st) == [ok |-> TRUE, text |-> text, st |-> st]

\* ADF2MDRegistry.create_default: the node types with a registered converter.
Registered ==
  {"doc", "text", "paragraph", "heading", "bulletList", "orderedList",
   "hardBreak", "inlineCard", "rule", "date", "status", "mention", "table",
   "tableRow", "tableCell", "tableHeader", "extension"}

Unsupported(node_type) ==
  [ok |-> FALSE, err |-> "ValueError", msg |-> "Unsupported node type", arg |-> node_type]

Truthy(opt) == opt # None /\ opt[1] # <<>>

NESTED_TABLE_TYPE == <<"com.atlassian.confluence.migration">>
NESTED_TABLE_KEY == <<"nested-table">>

\* f'{key}="{value}"'
Attr(key, value) == <<key, "=", QUOTE>> \o value \o <<QUOTE>>

\* f"<!-- ADF:{name}{':' + attrs_str if attrs_str else ''} -->"
StartMarker(name, attrs_parts) ==
  LET attrs_str == JoinWith(<<",">>, attrs_parts)
  IN  <<OPEN, name>> \o (IF attrs_str # <<>> THEN <<":">> \o attrs_str ELSE <<>>) \o <<SP, CLOSE>>

EndMarker(name) == <<ENDOPEN, name, SP, CLOSE>>

RECURSIVE RemoveFirst(_, _)
\* list.remove(item)
RemoveFirst(list, item) ==
  IF list = <<>> THEN <<>>
  ELSE IF Head(list) = item THEN Tail(list)
  ELSE <<Head(list)>> \o RemoveFirst(Tail(list), item)

\* The marks loop of TextConverter.convert: wrap for each mark of mark_order.
ApplyFormatters(text, marks) ==
  LET has(m) == m \in SeqToSet(marks)
      t1 == IF has("code") THEN <<BACKTICK>> \o text \o <<BACKTICK>> ELSE text
      t2 == IF has("em") THEN <<"*">> \o t1 \o <<"*">> ELSE t1
      t3 == IF has("strong") THEN <<"*", "*">> \o t2 \o <<"*", "*">> ELSE t2
      t4 == IF has("strike") THEN <<"~", "~">> \o t3 \o <<"~", "~">> ELSE t3
  IN  t4

\* if value: unsupported_marks.remove(name); unsupported_marks.append(f"{name}={value}")
WithValue(items, name, value) ==
  IF Truthy(value) THEN Append(RemoveFirst(items, <<name>>), <<name, "=">> \o value[1])
  ELSE items

TextConverter_convert(node) ==
  LET formatted == ApplyFormatters(node.text, node.marks)
  IN  Let(IF Truthy(node.url)
          THEN <<"[">> \o formatted \o <<"]", "(">> \o node.url[1] \o <<")">>
          ELSE formatted, LAMBDA text :
      LET unsupported == SelectSeq(node.marks,
                           LAMBDA m : m \in {"underline", "subsup", "textColor", "backgroundColor"})
          items0 == [i \in 1..Len(unsupported) |-> <<unsupported[i]>>]
          items1 == WithValue(items0, "subsup", node.subsup)
          items2 == WithValue(items1, "textColor", node.text_color)
          items3 == WithValue(items2, "backgroundColor", node.background_color)
          marks_str == JoinWith(<<",">>, items3)
      IN  IF unsupported # <<>>
          THEN <<OPEN, "text", ":">> \o Attr("marks", marks_str) \o <<SP, CLOSE>>
                 \o text \o EndMarker("text")
          ELSE text)

RECURSIVE Repeat(_, _)
\* s * n
Repeat(s, n) == IF n <= 0 THEN <<>> ELSE s \o Repeat(s, n - 1)

\* f"{n:02d}"
TwoDigits(n) == <<Digits[(n \div 10) + 1], Digits[(n % 10) + 1]>>

\* datetime.fromtimestamp(float(timestamp) / 1000, tz=utc).strftime("%Y-%m-%dT%H:%M:%SZ")
\* for a timestamp, a string of digits, within the first day of the epoch.
FormatDate(timestamp) ==
  LET seconds == DigitsValue(timestamp) \div 1000
  IN  <<"1", "9", "7", "0", "-", "0", "1", "-", "0", "1", "T">>
        \o TwoDigits(seconds \div 3600) \o <<":">>
        \o TwoDigits((seconds % 3600) \div 60) \o <<":">>
        \o TwoDigits(seconds % 60) \o <<"Z">>

DateConverter_convert(node) ==
  StartMarker("date", <<Attr("timestamp", node.timestamp)>>)
    \o FormatDate(node.timestamp) \o EndMarker("date")

\* f"{value}" of an Optional str: "None" for None
Fmt(opt) == IF opt = None THEN <<"None">> ELSE opt[1]

StatusConverter_convert(node) ==
  StartMarker("status", <<Attr("text", node.text), Attr("color", Fmt(node.color))>>)
    \o node.text \o EndMarker("status")

\* The marker without the text attribute: the display text only between the markers.
MentionConverter_untexted(node) ==
  LET parts == <<Attr("id", node.id)>>
         \o (IF Truthy(node.user_type) THEN <<Attr("userType", node.user_type[1])>> ELSE <<>>)
         \o (IF Truthy(node.access_level)
             THEN <<Attr("accessLevel", node.access_level[1])>> ELSE <<>>)
      display_text == IF Truthy(node.text) THEN node.text[1]
                      ELSE <<"@", "mention", "(">> \o node.id \o <<")">>
  IN  StartMarker("mention", parts) \o display_text \o EndMarker("mention")

MentionConverter_convert(node) ==
  LET parts == <<Attr("id", node.id)>>
         \o (IF Truthy(node.text) THEN <<Attr("text", node.text[1])>> ELSE <<>>)
         \o (IF Truthy(node.user_type) THEN <<Attr("userType", node.user_type[1])>> ELSE <<>>)
         \o (IF Truthy(node.access_level)
             THEN <<Attr("accessLevel", node.access_level[1])>> ELSE <<>>)
      display_text == IF Truthy(node.text) THEN node.text[1]
                      ELSE <<"@", "mention", "(">> \o node.id \o <<")">>
  IN  StartMarker("mention", parts) \o display_text \o EndMarker("mention")

\* any(col_start <= current_col < col_end for ... in active_rowspans)
Covered(active_rowspans, col) ==
  \E k \in 1..Len(active_rowspans) :
    active_rowspans[k][1] <= col /\ col < active_rowspans[k][2]

\* No empty cell for the columns a rowspan of an earlier row covers.
FillCount_none(active_rowspans, col) == 0

RECURSIVE FillCount(_, _)
\* The empty cells the while loop of TableRowConverter adds before a cell.
FillCount(active_rowspans, col) ==
  IF Covered(active_rowspans, col) THEN 1 + FillCount(active_rowspans, col + 1) ELSE 0

Empties(n) == [k \in 1..n |-> <<>>]

\* value if value else 1
SpanOf(opt) == IF opt = None \/ opt[1] = 0 THEN 1 ELSE opt[1]

RECURSIVE convert(_, _, _)
RECURSIVE ConvertEach(_, _, _, _)
RECURSIVE RowCells(_, _, _, _, _, _)
RECURSIVE TableRows(_, _, _, _, _, _)
RECURSIVE ListLines(_, _, _, _, _)

\* ADF2MDBaseConverter._convert_child and ADF2MDRegistry.convert
_convert_child(node, kw, st) ==
  IF node.type \notin Registered THEN Unsupported(node.type)
  ELSE convert(node, kw, st)

\* for child_node in node.children: text_parts.append(self._convert_child(child_node))
\* with the kwargs kws[i] for child i; the text is "".join(text_parts).
ConvertEach(children, i, kws, st) ==
  IF i > Len(children) THEN R(<<>>, st)
  ELSE Let(_convert_child(children[i], kws[i], st), LAMBDA r :
       IF ~r.ok THEN r
       ELSE Let(ConvertEach(children, i + 1, kws, r.st), LAMBDA rest :
            IF ~rest.ok THEN rest ELSE R(r.text \o rest.text, rest.st)))

\* Children converted with no kwargs: they see none of the caller's objects.
ConvertChildren(node, st) ==
  Let(ConvertEach(node.children, 1, [i \in 1..Len(node.children) |-> DefaultKw], FreshSt), LAMBDA r :
  IF ~r.ok THEN r ELSE R(r.text, st))

ParagraphConverter_convert(node, kw, st) ==
  Let(ConvertChildren(node, st), LAMBDA r :
  IF ~r.ok THEN r
  ELSE R(r.text \o (IF ~kw.no_newlines THEN <<NL, NL>> ELSE <<>>), st))

\* The heading with as many "#" as its level says, not brought into 1..6.
HeadingConverter_unclamped(node, kw, st) ==
  Let(ConvertChildren(node, st), LAMBDA r :
  IF ~r.ok THEN r
  ELSE R(Repeat(<<"#">>, node.level) \o <<SP>> \o r.text \o <<NL, NL>>, st))

HeadingConverter_convert(node, kw, st) ==
  Let(ConvertChildren(node, st), LAMBDA r :
  LET level == IF node.level < 1 THEN 1 ELSE IF node.level > 6 THEN 6 ELSE node.level
  IN  IF ~r.ok THEN r
      ELSE R(Repeat(<<"#">>, level) \o <<SP>> \o r.text \o <<NL, NL>>, st))

\* The last child of the item that is of one of the kinds, as an Optional.
LastOfKinds(item, kinds) ==
  LET I == {k \in 1..Len(item.children) : item.children[k].type \in kinds}
  IN  IF I = {} THEN None ELSE Some(item.children[Max(I)])

\* The loop of BulletListConverter.convert (ordered = FALSE) and of
\* OrderedListConverter.convert (ordered = TRUE): the lines of the items from i on.
ListLines(items, i, ordered, indent_level, item_number) ==
  IF i > Len(items) THEN [ok |-> TRUE, lines |-> <<>>]
  ELSE IF items[i].type # "listItem"
  THEN ListLines(items, i + 1, ordered, indent_level, item_number)
  ELSE
    LET para == LastOfKinds(items[i], {"paragraph"})
        nested == LastOfKinds(items[i],
                    IF ordered THEN {"orderedList", "bulletList"} ELSE {"bulletList"})
    IN  Let(IF para = None THEN R(<<>>, FreshSt)
            ELSE _convert_child(para[1], [DefaultKw EXCEPT !.no_newlines = TRUE], FreshSt), LAMBDA pr :
        Let(IF nested = None THEN R(<<>>, FreshSt)
            ELSE _convert_child(nested[1],
                   [DefaultKw EXCEPT !.indent_level = indent_level + 1], FreshSt), LAMBDA nr :
        LET indent == Repeat(<<SP, SP>>, indent_level)
            prefix == IF ordered THEN NumStr(item_number) \o <<".", SP>> ELSE <<"-", SP>>
        IN  IF ~pr.ok THEN pr
            ELSE IF ~nr.ok THEN nr
            ELSE
              LET own == IF pr.text # <<>> THEN <<indent \o prefix \o pr.text>> ELSE <<>>
                  sub == IF nr.text # <<>> THEN <<nr.text>> ELSE <<>>
                  next_number == IF pr.text # <<>> THEN item_number + 1 ELSE item_number
              IN  Let(ListLines(items, i + 1, ordered, indent_level, next_number), LAMBDA rest :
                  IF ~rest.ok THEN rest
                  ELSE [ok |-> TRUE, lines |-> own \o sub \o rest.lines])))

ListConverter_convert(node, ordered, kw, st) ==
  Let(ListLines(node.children, 1, ordered, kw.indent_level, 1), LAMBDA r :
  IF ~r.ok THEN r ELSE R(JoinWith(<<NL>>, r.lines), st))

\* The start marker without the version.
DocConverter_unversioned(node, kw, st) ==
  Let(ConvertChildren(node, st), LAMBDA r :
  IF ~r.ok THEN r
  ELSE R(StartMarker("doc", <<>>) \o <<NL>> \o RStrip(r.text) \o <<NL>> \o EndMarker("doc"), st))

DocConverter_convert(node, kw, st) ==
  Let(ConvertChildren(node, st), LAMBDA r :
  LET start_marker == IF node.version # None
                      THEN StartMarker("doc", <<Attr("version", NumStr(node.version[1]))>>)
                      ELSE StartMarker("doc", <<>>)
  IN  IF ~r.ok THEN r
      ELSE R(start_marker \o <<NL>> \o RStrip(r.text) \o <<NL>> \o EndMarker("doc"), st))

\* ADF2MDBaseConverter._convert_table_cell_or_header
\* The children's text between the markers as it is, line breaks included.
_convert_table_cell_or_header_raw(node, marker_name, kw, st) ==
  LET attrs_parts ==
           (IF node.background # None THEN <<Attr("background", node.background[1])>> ELSE <<>>)
        \o (IF node.colwidth # None
            THEN <<Attr("colwidth",
                        JoinWith(<<",">>, [k \in 1..Len(node.colwidth[1]) |->
                                             NumStr(node.colwidth[1][k])]))>>
            ELSE <<>>)
        \o (IF node.colspan # None /\ node.colspan # Some(1)
            THEN <<Attr("colspan", NumStr(node.colspan[1]))>> ELSE <<>>)
        \o (IF node.rowspan # None /\ node.rowspan # Some(1)
            THEN <<Attr("rowspan", NumStr(node.rowspan[1]))>> ELSE <<>>)
      n == Len(node.children)
  IN  Let(ConvertEach(node.children, 1,
                      [i \in 1..n |-> [kw EXCEPT !.no_newlines = (i = n)]], st), LAMBDA r :
      IF ~r.ok THEN r
      ELSE R(StartMarker(marker_name, attrs_parts)
               \o r.text
               \o EndMarker(marker_name),
             r.st))

\* ADF2MDBaseConverter._convert_table_cell_or_header
_convert_table_cell_or_header(node, marker_name, kw, st) ==
  LET attrs_parts ==
           (IF node.background # None THEN <<Attr("background", node.background[1])>> ELSE <<>>)
        \o (IF node.colwidth # None
            THEN <<Attr("colwidth",
                        JoinWith(<<",">>, [k \in 1..Len(node.colwidth[1]) |->
                                             NumStr(node.colwidth[1][k])]))>>
            ELSE <<>>)
        \o (IF node.colspan # None /\ node.colspan # Some(1)
            THEN <<Attr("colspan", NumStr(node.colspan[1]))>> ELSE <<>>)
        \o (IF node.rowspan # None /\ node.rowspan # Some(1)
            THEN <<Attr("rowspan", NumStr(node.rowspan[1]))>> ELSE <<>>)
      n == Len(node.children)
  IN  Let(ConvertEach(node.children, 1,
                      [i \in 1..n |-> [kw EXCEPT !.no_newlines = (i = n)]], st), LAMBDA r :
      IF ~r.ok THEN r
      ELSE R(StartMarker(marker_name, attrs_parts)
               \o Replace(Replace(r.text, <<SP, SP, NL>>, <<BR>>), <<NL>>, <<BR>>)
               \o EndMarker(marker_name),
             r.st))

\* The loop of TableRowConverter.convert over the cells from i on.
RowCells(cell_nodes, i, kw, st, cells, current_col) ==
  IF i > Len(cell_nodes)
  THEN [ok |-> TRUE, cells |-> cells, current_col |-> current_col, st |-> st]
  ELSE
    LET fill == FillCount(kw.active_rowspans, current_col)
        col == current_col + fill
    IN  Let(_convert_child(cell_nodes[i], kw, st), LAMBDA r :
        LET colspan == SpanOf(cell_nodes[i].colspan)
            rowspan == SpanOf(cell_nodes[i].rowspan)
        IN  IF ~r.ok THEN r
            ELSE RowCells(cell_nodes, i + 1, kw,
                   IF rowspan > 1
                   THEN [r.st EXCEPT !.new_rowspans = Append(@, <<col, col + colspan, rowspan - 1>>)]
                   ELSE r.st,
                   cells \o Empties(fill) \o << <<SP>> \o r.text \o <<SP>> >> \o Empties(colspan - 1),
                   col + colspan))

TableRowConverter_convert(node, kw, st) ==
  LET cell_nodes == SelectSeq(node.children, LAMBDA c : c.type \in {"tableCell", "tableHeader"})
  IN  Let(RowCells(cell_nodes, 1, kw, st, <<>>, 0), LAMBDA r :
      IF ~r.ok THEN r
      ELSE LET ends == {kw.active_rowspans[k][2] : k \in 1..Len(kw.active_rowspans)}
               max_col == IF ends = {} THEN r.current_col ELSE Max(ends)
               cells == r.cells \o Empties(IF max_col > r.current_col
                                           THEN max_col - r.current_col ELSE 0)
           IN  R(<<"|">> \o JoinWith(<<"|">>, cells) \o <<"|">>, r.st))

\* The separator row TableConverter.convert adds after the first row.
SeparatorRow(first_row) ==
  LET cell_count == Len(SplitOn(first_row, "|")) - 2
  IN  <<"|", SP>>
        \o JoinWith(<<SP, "|", SP>>, [k \in 1..cell_count |-> <<"-", "-", "-">>])
        \o <<SP, "|">>

\* The active rowspans kept as they are, none counted down or removed.
DecrementRowspans_kept(active_rowspans) == active_rowspans

\* (col_start, col_end, remaining - 1) for the active rowspans with remaining > 1
DecrementRowspans(active_rowspans) ==
  LET kept == SelectSeq(active_rowspans, LAMBDA t : t[3] > 1)
  IN  [k \in 1..Len(kept) |-> <<kept[k][1], kept[k][2], kept[k][3] - 1>>]

\* The loop of TableConverter.convert over the rows from i on.
TableRows(row_nodes, i, kw, st, rows, active_rowspans) ==
  IF i > Len(row_nodes) THEN [ok |-> TRUE, rows |-> rows, st |-> st]
  ELSE
    Let(_convert_child(row_nodes[i],
          [kw EXCEPT !.active_rowspans = active_rowspans, !.has_rowspans = TRUE],
          [st EXCEPT !.new_rowspans = <<>>]), LAMBDA r :
    IF ~r.ok THEN r
    ELSE TableRows(row_nodes, i + 1, kw, r.st,
           rows \o <<r.text>> \o (IF i = 1 THEN <<SeparatorRow(r.text)>> ELSE <<>>),
           DecrementRowspans(active_rowspans) \o r.st.new_rowspans))

BoolStr(b) == IF b THEN <<"true">> ELSE <<"false">>

TableConverter_convert(node, kw, st) ==
  LET kw1 == [kw EXCEPT !.inside_table = TRUE, !.has_nested_tables = TRUE]
      st1 == IF kw.has_nested_tables THEN st ELSE [st EXCEPT !.nested_tables = <<>>]
      attrs_parts ==
           (IF node.is_number_column_enabled # None
            THEN <<Attr("isNumberColumnEnabled", BoolStr(node.is_number_column_enabled[1]))>>
            ELSE <<>>)
        \o (IF node.width # None /\ node.width # Some(760)
            THEN <<Attr("width", NumStr(node.width[1]))>> ELSE <<>>)
        \o (IF Truthy(node.layout) /\ node.layout # Some(<<"default">>)
            THEN <<Attr("layout", node.layout[1])>> ELSE <<>>)
        \o (IF Truthy(node.display_mode) /\ node.display_mode # Some(<<"default">>)
            THEN <<Attr("displayMode", node.display_mode[1])>> ELSE <<>>)
      row_nodes == SelectSeq(node.children, LAMBDA c : c.type = "tableRow")
  IN  Let(TableRows(row_nodes, 1, kw1, st1, <<>>, <<>>), LAMBDA r :
      IF ~r.ok THEN r
      ELSE
        LET nested_tables == r.st.nested_tables
            nested_tables_markdown ==
              IF nested_tables # <<>> THEN <<NL>> \o JoinWith(<<NL>>, nested_tables) ELSE <<>>
        IN  R(StartMarker("table", attrs_parts) \o <<NL>> \o JoinWith(<<NL>>, r.rows)
                \o <<NL>> \o EndMarker("table") \o nested_tables_markdown \o <<NL, NL>>,
              [count |-> r.st.count,
               nested_tables |-> IF kw.has_nested_tables THEN r.st.nested_tables
                                 ELSE st.nested_tables,
               new_rowspans |-> st.new_rowspans]))

\* json.loads of a parameters.adf string
json_loads(str) == str.json
\* json.dumps of a node
json_dumps(node) == [json |-> node]

\* Every reference numbered 1.
RefId_first(count) == <<"nested-table-">> \o NumStr(1)

\* f"nested-table-{nested_table_counter['count']}"
RefId(count) == <<"nested-table-">> \o NumStr(count)

ExtensionConverter_convert(node, kw, st) ==
  IF /\ node.extension_type = NESTED_TABLE_TYPE
     /\ node.extension_key = NESTED_TABLE_KEY
     /\ node.parameters # None
     /\ Has(node.parameters[1], "adf")
  THEN
    Let(DocNode_from_dict(json_loads(node.parameters[1].adf)), LAMBDA nested_doc :
    Let(IF nested_doc.ok THEN DocConverter_convert(nested_doc.v, DefaultKw, FreshSt)
        ELSE nested_doc, LAMBDA nested :
    LET tail == IF ~kw.no_newlines THEN <<NL>> ELSE <<>>
    IN  IF ~nested.ok THEN nested
        ELSE IF kw.inside_table
        THEN
          IF ~kw.has_counter
          THEN Err("TypeError", "'NoneType' object is not subscriptable")
          ELSE
            LET count == st.count + 1
                ref_id == RefId(count)
                block == StartMarker("nested-table", <<Attr("ref", ref_id)>>) \o <<NL>>
                           \o <<"<a", SP, "name", "=", QUOTE>> \o ref_id \o <<QUOTE, ">", "*", "*">>
                           \o ref_id \o <<"*", "*", "</a>", NL>>
                           \o RStrip(nested.text) \o <<NL>>
                           \o EndMarker("nested-table")
                start_marker == StartMarker("extension",
                                  <<Attr("extensionType", NESTED_TABLE_TYPE),
                                    Attr("extensionKey", NESTED_TABLE_KEY),
                                    Attr("ref", ref_id)>>)
                markdown_content == <<"[", "*", "*">> \o ref_id \o <<"*", "*", "]", "(", "#">>
                                      \o ref_id \o <<")">>
            IN  R(start_marker \o markdown_content \o EndMarker("extension") \o tail,
                  [st EXCEPT !.count = count,
                             !.nested_tables = IF kw.has_nested_tables THEN Append(@, block)
                                               ELSE @])
        ELSE
          R(StartMarker("extension", <<Attr("extensionType", NESTED_TABLE_TYPE),
                                       Attr("extensionKey", NESTED_TABLE_KEY)>>)
              \o <<NL>> \o nested.text \o <<NL>> \o EndMarker("extension") \o tail,
            st)))
  ELSE
    R(StartMarker("extension",
        <<Attr("extensionType", node.extension_type), Attr("extensionKey", node.extension_key)>>
          \o (IF Truthy(node.text) THEN <<Attr("text", node.text[1])>> ELSE <<>>))
        \o EndMarker("extension"),
      st)

\* The convert method of the converter registered for node.type.
convert(node, kw, st) ==
  CASE node.type = "text" -> R(TextConverter_convert(node), st)
    [] node.type = "paragraph" -> ParagraphConverter_convert(node, kw, st)
    [] node.type = "heading" -> HeadingConverter_convert(node, kw, st)
    [] node.type = "bulletList" -> ListConverter_convert(node, FALSE, kw, st)
    [] node.type = "orderedList" -> ListConverter_convert(node, TRUE, kw, st)
    [] node.type = "hardBreak" -> R(<<SP, SP, NL>>, st)
    [] node.type = "inlineCard" -> R(<<"[">> \o node.url \o <<"]", "(">> \o node.url \o <<")">>, st)
    [] node.type = "rule" -> R(<<"-", "-", "-", NL, NL>>, st)
    [] node.type = "date" -> R(DateConverter_convert(node), st)
    [] node.type = "status" -> R(StatusConverter_convert(node), st)
    [] node.type = "mention" -> R(MentionConverter_convert(node), st)
    [] node.type = "doc" -> DocConverter_convert(node, kw, st)
    [] node.type = "table" -> TableConverter_convert(node, kw, st)
    [] node.type = "tableRow" -> TableRowConverter_convert(node, kw, st)
    [] node.type \in {"tableCell", "tableHeader"}
         -> _convert_table_cell_or_header(node, node.type, kw, st)
    [] node.type = "extension" -> ExtensionConverter_convert(node, kw, st)

(***************************************************************************)
(* adfmd.py: ADFMD.to_markdown                                             *)
(*                                                                         *)
(* adf_data is [isList |-> whether a list was passed, v |-> the dicts].    *)
(***************************************************************************)
\* nodes = [ADFNode.from_dict(node_dict) for node_dict in adf_data]
FromDictAll(adf_data) ==
  Let([i \in 1..Len(adf_data.v) |-> from_dict(adf_data.v[i])], LAMBDA rs :
  LET bad == {i \in 1..Len(rs) : ~rs[i].ok}
  IN  IF bad = {} THEN Ok([i \in 1..Len(rs) |-> rs[i].v]) ELSE rs[Min(bad)])

\* The counter kept from the work the instance did before, not started anew.
shared_kwargs_stale(self) == [count |-> self.registry_md2adf.parser._table_count]

\* shared_kwargs = {"nested_table_counter": {"count": 0}}
shared_kwargs(self) == [count |-> 0]

\* ADFMD.to_markdown: [ok |-> TRUE, text |-> the Markdown, count |-> the counter
\* at the end of the call] or the error raised.
to_markdown(self, adf_data) ==
  Let(FromDictAll(adf_data), LAMBDA nodes :
  LET kw == [DefaultKw EXCEPT !.has_counter = TRUE]
      st == [FreshSt EXCEPT !.count = shared_kwargs(self).count]
  IN
  Let(IF nodes.ok
      THEN ConvertEach(nodes.v, 1, [i \in 1..Len(nodes.v) |-> kw], st)
      ELSE nodes, LAMBDA r :
  IF ~r.ok THEN r
  ELSE [ok |-> TRUE, text |-> RStripSet(r.text, {NL}), count |-> r.st.count]))

(***************************************************************************)
(* converter/md2adf.py: regular expressions, attributes and marks          *)
(*                                                                         *)
(* A marker kind (group 1 of the marker expressions) is kept as the atom   *)
(* sequence the name class matched.  A key or a mark type that becomes a   *)
(* dict key or a "type" value is the atom itself when the name is one      *)
(* atom; names of several atoms are all mapped to COMPOSITE.               *)
(***************************************************************************)
COMPOSITE == "<composite>"

NESTED_TABLE_REASON ==
  <<"A table in a table cell can't be created or edited in the new editor.">>

\* MARK_ORDER.get(type, 99)
MARK_ORDER(type) ==
  CASE type = "strong" -> 0
    [] type = "em" -> 1
    [] type = "code" -> 2
    [] type = "strike" -> 3
    [] type = "underline" -> 4
    [] type = "textColor" -> 5
    [] type = "backgroundColor" -> 6
    [] type = "subsup" -> 7
    [] type = "link" -> 8
    [] OTHER -> 99

\* The order of str comparison on the word atoms that can be mark types.
AlphaOrder ==
  <<"0", "1", "2", "3", "4", "5", "6", "7", "8", "9", "a", "b",
    "backgroundColor", "c", "code", "d", "default", "e", "em", "link", "n",
    "s", "strike", "strong", "sub", "subsup", "sup", "text", "textColor",
    "u", "underline", "v">>

StrIndex(str) ==
  LET I == {i \in 1..Len(AlphaOrder) : AlphaOrder[i] = str}
  IN  IF I = {} THEN 0 ELSE Min(I)

\* key(a) <= key(b) for the sort key (MARK_ORDER.get(type, 99), type)
MarkKeyLeq(a, b) ==
  \/ MARK_ORDER(a.type) < MARK_ORDER(b.type)
  \/ MARK_ORDER(a.type) = MARK_ORDER(b.type) /\ StrIndex(a.type) <= StrIndex(b.type)

RECURSIVE InsertMark(_, _)
\* One step of the stable sort: m goes after every mark whose key is <= its key.
InsertMark(sorted, m) ==
  IF sorted = <<>> THEN <<m>>
  ELSE IF MarkKeyLeq(sorted[Len(sorted)], m) THEN Append(sorted, m)
  ELSE Append(InsertMark(SubSeq(sorted, 1, Len(sorted) - 1), m), sorted[Len(sorted)])

RECURSIVE _normalize_marks(_)
_normalize_marks(marks) ==
  IF marks = <<>> THEN <<>>
  ELSE InsertMark(_normalize_marks(SubSeq(marks, 1, Len(marks) - 1)), marks[Len(marks)])

RECURSIVE NameRunEnd(_, _)
\* The last index of the longest run of name atoms that starts at i (i - 1: none).
NameRunEnd(s, i) ==
  IF i <= Len(s) /\ s[i] \in NameAtoms THEN NameRunEnd(s, i + 1) ELSE i - 1

RECURSIVE SkipWs(_, _)
\* The first index >= i that holds no whitespace atom.
SkipWs(s, i) == IF i <= Len(s) /\ s[i] \in Whitespace THEN SkipWs(s, i + 1) ELSE i

NoMatch == [found |-> FALSE]

KeyName(atoms) ==
  IF atoms = <<>> THEN "" ELSE IF Len(atoms) = 1 THEN atoms[1] ELSE COMPOSITE

\* INLINE_MARKER_RE tried at position p:
\* <!--\s*ADF:([a-zA-Z0-9_-]+)(?::(.*?))?\s*-->
InlineMarkerAt(s, p) ==
  Let(NameRunEnd(s, p + 1), LAMBDA e :
  LET c == First(s, CLOSE, e + 2)
      group2 == RStrip(SubSeq(s, e + 2, c - 1))
      k == SkipWs(s, e + 1)
  IN  IF ~(p <= Len(s) /\ s[p] = OPEN /\ e >= p + 1) THEN NoMatch
      ELSE IF e + 1 <= Len(s) /\ s[e + 1] = ":" /\ c # 0 /\ NL \notin SeqToSet(group2)
      THEN [found |-> TRUE, start |-> p, end |-> c, kind |-> SubSeq(s, p + 1, e),
            attrs |-> group2]
      ELSE IF k <= Len(s) /\ s[k] = CLOSE
      THEN [found |-> TRUE, start |-> p, end |-> k, kind |-> SubSeq(s, p + 1, e),
            attrs |-> <<>>]
      ELSE NoMatch)

RECURSIVE InlineMarkerSearch(_, _)
\* INLINE_MARKER_RE.search(s) from position from on
InlineMarkerSearch(s, from) ==
  LET p == First(s, OPEN, from)
  IN  Let(InlineMarkerAt(s, p), LAMBDA m :
      IF p = 0 THEN NoMatch
      ELSE IF m.found THEN m
      ELSE InlineMarkerSearch(s, p + 1))

\* START_MARKER_RE.match(line):
\* ^\s*<!--\s*ADF:([a-zA-Z0-9_-]+)(?::([^>]*)?)?\s*-->\s*$
StartMarkerMatch(line) ==
  LET p == SkipWs(line, 1)
      e == NameRunEnd(line, p + 1)
      c == First(line, CLOSE, e + 1)
  IN  Let(SubSeq(line, e + 1, c - 1), LAMBDA between :
      IF ~(p <= Len(line) /\ line[p] = OPEN /\ e >= p + 1 /\ c # 0) THEN NoMatch
      ELSE IF SkipWs(line, c + 1) <= Len(line) THEN NoMatch
      ELSE IF between # <<>> /\ between[1] = ":" /\ SeqToSet(between) \cap GtAtoms = {}
      THEN [found |-> TRUE, kind |-> SubSeq(line, p + 1, e),
            attrs |-> Tail(between)]
      ELSE IF SeqToSet(between) \subseteq Whitespace
      THEN [found |-> TRUE, kind |-> SubSeq(line, p + 1, e), attrs |-> <<>>]
      ELSE NoMatch)

\* END_MARKER_RE.match(line): ^\s*<!--\s*/ADF:([a-zA-Z0-9_-]+)\s*-->\s*$
EndMarkerMatch(line) ==
  LET p == SkipWs(line, 1)
      e == NameRunEnd(line, p + 1)
      c == SkipWs(line, e + 1)
  IN  IF /\ p <= Len(line) /\ line[p] = ENDOPEN /\ e >= p + 1
         /\ c <= Len(line) /\ line[c] = CLOSE
         /\ SkipWs(line, c + 1) > Len(line)
      THEN [found |-> TRUE, kind |-> SubSeq(line, p + 1, e)]
      ELSE NoMatch

RECURSIVE FindAllAttrs(_, _)
\* re.findall(r'([a-zA-Z0-9_-]+)="([^"]*)"', attr_str) from position p on
FindAllAttrs(s, p) ==
  IF p > Len(s) THEN <<>>
  ELSE Let(NameRunEnd(s, p), LAMBDA e :
       LET r == First(s, QUOTE, e + 3)
       IN  IF /\ e >= p /\ e + 2 <= Len(s)
              /\ s[e + 1] = "=" /\ s[e + 2] = QUOTE /\ r # 0
           THEN << <<SubSeq(s, p, e), SubSeq(s, e + 3, r - 1)>> >> \o FindAllAttrs(s, r + 1)
           ELSE FindAllAttrs(s, p + 1))

RECURSIVE SplitAttrsLoop(_, _, _, _)
\* The loop of _split_attrs: the parts before stripping.
SplitAttrsLoop(s, i, current, in_quotes) ==
  IF i > Len(s) THEN <<current>>
  ELSE IF s[i] = QUOTE THEN SplitAttrsLoop(s, i + 1, Append(current, s[i]), ~in_quotes)
  ELSE IF s[i] = "," /\ ~in_quotes
  THEN <<current>> \o SplitAttrsLoop(s, i + 1, <<>>, in_quotes)
  ELSE SplitAttrsLoop(s, i + 1, Append(current, s[i]), in_quotes)

_split_attrs(attr_str) ==
  LET raw == SplitAttrsLoop(attr_str, 1, <<>>, FALSE)
      stripped == [i \in 1..Len(raw) |-> Strip(raw[i])]
  IN  SelectSeq(stripped, LAMBDA part : part # <<>>)

RECURSIVE DictOf(_)
\* The dict a loop of attrs[key] = value builds from the pairs: the last wins.
DictOf(pairs) ==
  IF pairs = <<>> THEN EmptyDict
  ELSE LET last == pairs[Len(pairs)]
       IN  (KeyName(last[1]) :> last[2]) @@ DictOf(SubSeq(pairs, 1, Len(pairs) - 1))

_parse_attrs(attr_str) ==
  Let(FindAllAttrs(attr_str, 1), LAMBDA found :
  LET parts == SelectSeq(_split_attrs(attr_str), LAMBDA part : First(part, "=", 1) # 0)
      split == [i \in 1..Len(parts) |->
                  LET eq == First(parts[i], "=", 1)
                  IN  <<Strip(SubSeq(parts[i], 1, eq - 1)),
                        LStripSet(RStripSet(Strip(From(parts[i], eq + 1)), {QUOTE}), {QUOTE})>>]
  IN  IF attr_str = <<>> THEN EmptyDict
      ELSE IF found # <<>> THEN DictOf(found)
      ELSE DictOf(split))

\* _parse_number on an Optional str.  The numbers of the model are the naturals:
\* a string of digits parses to its value, every other string to None.
_parse_number(value) ==
  IF value = None THEN None
  ELSE IF value[1] # <<>> /\ SeqToSet(value[1]) \subseteq SeqToSet(Digits)
  THEN Some(DigitsValue(value[1]))
  ELSE None

\* _parse_bool on an Optional str; the atoms "true" and "false" are lower case.
_parse_bool(value) ==
  IF value = None THEN None
  ELSE IF value[1] = <<"true">> THEN Some(TRUE)
  ELSE IF value[1] = <<"false">> THEN Some(FALSE)
  ELSE None

\* attrs.get(key) is truthy
AttrSet(attrs, key) == Has(attrs, key) /\ attrs[key] # <<>>

\* {key: attrs[key]} if attrs.get(key) else {}
OptField(attrs, key) == IF AttrSet(attrs, key) THEN key :> attrs[key] ELSE EmptyDict

_parse_marks(marks_str) ==
  LET raw == SplitOn(marks_str, ",")
      items == SelectSeq([i \in 1..Len(raw) |-> Strip(raw[i])], LAMBDA item : item # <<>>)
      mark(item) ==
        IF StartsWith(item, <<"textColor", "=">>)
        THEN [type |-> "textColor", attrs |-> [color |-> From(item, 3)]]
        ELSE IF StartsWith(item, <<"backgroundColor", "=">>)
        THEN [type |-> "backgroundColor", attrs |-> [color |-> From(item, 3)]]
        ELSE IF StartsWith(item, <<"subsup", "=">>)
        THEN [type |-> "subsup", attrs |-> [type |-> From(item, 3)]]
        ELSE [type |-> KeyName(item)]
  IN  IF marks_str = <<>> THEN <<>>
      ELSE [i \in 1..Len(items) |-> mark(items[i])]

_apply_marks(nodes, marks) ==
  IF marks = <<>> THEN nodes
  ELSE [i \in 1..Len(nodes) |->
          IF nodes[i].type = "text"
          THEN [type |-> "text", text |-> nodes[i].text,
                marks |-> _normalize_marks(Get(nodes[i], "marks", <<>>) \o marks)]
          ELSE nodes[i]]

RECURSIVE _merge_text_nodes(_)
_merge_text_nodes(nodes) ==
  IF nodes = <<>> THEN <<>>
  ELSE LET merged == _merge_text_nodes(SubSeq(nodes, 1, Len(nodes) - 1))
           node == nodes[Len(nodes)]
           last == merged[Len(merged)]
       IN  IF /\ merged # <<>>
              /\ node.type = "text"
              /\ last.type = "text"
              /\ Get(last, "marks", <<>>) = Get(node, "marks", <<>>)
           THEN [merged EXCEPT ![Len(merged)] =
                   ("text" :> (Get(last, "text", <<>>) \o Get(node, "text", <<>>))) @@ last]
           ELSE Append(merged, node)

_make_text(text, marks) ==
  [type |-> "text", text |-> text, marks |-> _normalize_marks(marks)]

(***************************************************************************)
(* converter/md2adf.py: inline parsing                                     *)
(***************************************************************************)
RECURSIVE LinkSearch(_, _)
\* LINK_RE.search: \[([^\]]+)\]\(([^)]+)\)
LinkSearch(s, from) ==
  LET p == First(s, "[", from)
      q == First(s, "]", p + 1)
      r == First(s, ")", q + 2)
  IN  IF p = 0 THEN NoMatch
      ELSE IF q > p + 1 /\ q + 1 <= Len(s) /\ s[q + 1] = "(" /\ r > q + 2
      THEN [found |-> TRUE, start |-> p, end |-> r,
            group1 |-> SubSeq(s, p + 1, q - 1), group2 |-> SubSeq(s, q + 2, r - 1)]
      ELSE LinkSearch(s, p + 1)

RECURSIVE DelimSearch(_, _, _, _)
\* The search of d{n}([^d]+)d{n}: CODE_RE, BOLD_ITALIC_RE, BOLD_RE, STRIKE_RE, ITALIC_RE
DelimSearch(s, d, n, from) ==
  LET delim == Repeat(<<d>>, n)
      p == Find(s, delim, from)
      q == First(s, d, p + n)
  IN  IF p = 0 THEN NoMatch
      ELSE IF q > p + n /\ IsAt(s, delim, q)
      THEN [found |-> TRUE, start |-> p, end |-> q + n - 1,
            group1 |-> SubSeq(s, p + n, q - 1)]
      ELSE DelimSearch(s, d, n, p + 1)

\* The matches of the six expressions in the order link, code, bold_italic,
\* bold, strike, italic; the winner is the leftmost, the earliest listed on a tie.
SpanMatches(s) ==
  << [name |-> "link", m |-> LinkSearch(s, 1)],
     [name |-> "code", m |-> DelimSearch(s, BACKTICK, 1, 1)],
     [name |-> "bold_italic", m |-> DelimSearch(s, "*", 3, 1)],
     [name |-> "bold", m |-> DelimSearch(s, "*", 2, 1)],
     [name |-> "strike", m |-> DelimSearch(s, "~", 2, 1)],
     [name |-> "italic", m |-> DelimSearch(s, "*", 1, 1)] >>

FirstSpan(s) ==
  Let(SpanMatches(s), LAMBDA all :
  LET I == {i \in 1..Len(all) : all[i].m.found}
      best == CHOOSE i \in I : \A j \in I :
                \/ all[i].m.start < all[j].m.start
                \/ all[i].m.start = all[j].m.start /\ i <= j
  IN  IF I = {} THEN [name |-> "none", m |-> NoMatch] ELSE all[best])

RECURSIVE SpansLoop(_, _)
RECURSIVE _parse_markdown_spans(_, _)

\* The while loop of _parse_markdown_spans: the nodes before the final merge.
SpansLoop(remaining, active_marks) ==
  IF remaining = <<>> THEN <<>>
  ELSE
    Let(FirstSpan(remaining), LAMBDA f :
    LET m == f.m
        before == IF m.start > 1
                  THEN <<_make_text(SubSeq(remaining, 1, m.start - 1), active_marks)>>
                  ELSE <<>>
    IN
    Let(_parse_markdown_spans(m.group1, active_marks), LAMBDA label_nodes :
    LET here ==
          CASE f.name = "link" ->
                 IF /\ m.group1 = m.group2
                    /\ Len(label_nodes) = 1
                    /\ label_nodes[1].type = "text"
                    /\ Get(label_nodes[1], "marks", <<>>) = <<>>
                    /\ active_marks = <<>>
                 THEN << [type |-> "inlineCard", attrs |-> [url |-> m.group2]] >>
                 ELSE _apply_marks(label_nodes,
                                   << [type |-> "link", attrs |-> [href |-> m.group2]] >>)
            [] f.name = "code" ->
                 <<_make_text(m.group1, active_marks \o <<[type |-> "code"]>>)>>
            [] f.name = "bold_italic" ->
                 _parse_markdown_spans(m.group1,
                   active_marks \o <<[type |-> "strong"], [type |-> "em"]>>)
            [] f.name = "bold" ->
                 _parse_markdown_spans(m.group1, active_marks \o <<[type |-> "strong"]>>)
            [] f.name = "strike" ->
                 _parse_markdown_spans(m.group1, active_marks \o <<[type |-> "strike"]>>)
            [] f.name = "italic" ->
                 _parse_markdown_spans(m.group1, active_marks \o <<[type |-> "em"]>>)
    IN  IF ~m.found THEN <<_make_text(remaining, active_marks)>>
        ELSE before \o here \o SpansLoop(From(remaining, m.end + 1), active_marks)))

_parse_markdown_spans(text, active_marks) ==
  _merge_text_nodes(SpansLoop(text, active_marks))

\* width, height, alt and the border mark of _parse_media_inline and _parse_media_block
MediaExtras(attrs) ==
  LET width == _parse_number(Opt(attrs, "width"))
      height == _parse_number(Opt(attrs, "height"))
  IN  (IF width # None THEN "width" :> width[1] ELSE EmptyDict)
        @@ (IF height # None THEN "height" :> height[1] ELSE EmptyDict)
        @@ OptField(attrs, "alt")

BorderMarks(attrs) ==
  LET border_size == _parse_number(Opt(attrs, "borderSize"))
  IN  IF border_size # None \/ AttrSet(attrs, "borderColor")
      THEN "marks" :> << [type |-> "border",
                          attrs |-> [size |-> IF border_size = None THEN Null
                                              ELSE border_size[1],
                                    color |-> Get(attrs, "borderColor", Null)]] >>
      ELSE EmptyDict

\* _parse_media_inline, as a list of zero or one node
_parse_media_inline(attrs) ==
  IF ~AttrSet(attrs, "id") \/ ~AttrSet(attrs, "collection") \/ ~AttrSet(attrs, "type")
  THEN <<>>
  ELSE << [type |-> "mediaInline",
           attrs |-> [id |-> attrs.id, collection |-> attrs.collection, type |-> attrs.type]
                       @@ MediaExtras(attrs)]
            @@ BorderMarks(attrs) >>

\* The branch of _parse_inlines for one matched marker pair: the nodes it adds.
InlineMarkerNodes(marker_type, attrs, inner) ==
  CASE marker_type = <<"text">> ->
         _apply_marks(_parse_markdown_spans(inner, <<>>),
                      _parse_marks(Get(attrs, "marks", <<>>)))
    [] marker_type = <<"mention">> ->
         IF AttrSet(attrs, "id")
         THEN << [type |-> "mention",
                  attrs |-> OptField(attrs, "id") @@ OptField(attrs, "text")
                              @@ OptField(attrs, "userType")
                              @@ OptField(attrs, "accessLevel")] >>
         ELSE <<>>
    [] marker_type = <<"status">> ->
         << [type |-> "status",
             attrs |-> ("text" :> Get(attrs, "text", Strip(inner)))
                         @@ OptField(attrs, "color")] >>
    [] marker_type = <<"emoji">> ->
         << [type |-> "emoji",
             attrs |-> OptField(attrs, "shortName") @@ OptField(attrs, "id")
                         @@ (IF AttrSet(attrs, "text") \/ Strip(inner) # <<>>
                             THEN "text" :> Get(attrs, "text", Strip(inner))
                             ELSE EmptyDict)] >>
    [] marker_type = <<"date">> ->
         IF AttrSet(attrs, "timestamp")
         THEN << [type |-> "date", attrs |-> [timestamp |-> attrs.timestamp]] >>
         ELSE <<>>
    [] marker_type = <<"mediaInline">> -> _parse_media_inline(attrs)
    [] marker_type = <<"extension">> ->
         LET given == OptField(attrs, "extensionType") @@ OptField(attrs, "extensionKey")
                        @@ OptField(attrs, "text")
                        @@ (IF AttrSet(attrs, "ref")
                            THEN "parameters" :> [ref |-> attrs.ref] ELSE EmptyDict)
             extension_attrs ==
               IF Get(given, "extensionKey", <<>>) = <<"nested-table">>
               THEN given @@ ("text" :> <<>>)
               ELSE given
         IN  IF DOMAIN extension_attrs # {}
             THEN << [type |-> "extension", attrs |-> extension_attrs] >>
             ELSE <<>>
    [] OTHER -> <<>>

RECURSIVE InlinesLoop(_)
\* The while loop of _parse_inlines: the nodes before the final merge.
InlinesLoop(remaining) ==
  IF remaining = <<>> THEN <<>>
  ELSE
    Let(InlineMarkerSearch(remaining, 1), LAMBDA match :
    LET prefix == SubSeq(remaining, 1, match.start - 1)
    IN
    Let(IF prefix # <<>> THEN _parse_markdown_spans(prefix, <<>>) ELSE <<>>, LAMBDA before :
    LET end_marker == <<ENDOPEN>> \o match.kind \o <<SP, CLOSE>>
        end_pos == Find(remaining, end_marker, match.end + 1)
        inner == SubSeq(remaining, match.end + 1, end_pos - 1)
    IN  IF ~match.found THEN _parse_markdown_spans(remaining, <<>>)
        ELSE IF end_pos = 0 THEN before \o _parse_markdown_spans(remaining, <<>>)
        ELSE before
               \o InlineMarkerNodes(match.kind, _parse_attrs(match.attrs), inner)
               \o InlinesLoop(From(remaining, end_pos + Len(end_marker)))))

_parse_inlines(text) == _merge_text_nodes(InlinesLoop(text))

(***************************************************************************)
(* converter/md2adf.py: lines, paragraphs, lists and table cells           *)
(*                                                                         *)
(* Line indices are 1-based; every caller passes end = len(lines), so the  *)
(* operators take the lines and the index only.                            *)
(***************************************************************************)
\* not line.strip()
IsBlank(line) == Strip(line) = <<>>

RECURSIVE DigitRunEnd(_, _)
\* The last index of the longest run of digits that starts at i (i - 1: none).
DigitRunEnd(s, i) ==
  IF i <= Len(s) /\ s[i] \in SeqToSet(Digits) THEN DigitRunEnd(s, i + 1) ELSE i - 1

\* re.match(r"^(\s*)(- |\d+\. )", line): the length of group 1, or -1.
ListPrefixIndent(line) ==
  LET p == SkipWs(line, 1)
      e == DigitRunEnd(line, p)
  IN  IF IsAt(line, <<"-", SP>>, p) THEN p - 1
      ELSE IF e >= p /\ IsAt(line, <<".", SP>>, e + 1) THEN p - 1
      ELSE -1

\* The index after the prefix "- " or "\d+\. " of a line with a list prefix.
ListPrefixEnd(line) ==
  LET p == SkipWs(line, 1)
  IN  IF IsAt(line, <<"-", SP>>, p) THEN p + 2
      ELSE First(line, ".", p) + 2

\* The number of "#" a heading line starts with (re.match(r"^(#{1,6})\s+", line)), or 0.
HeadingLevel(line) ==
  LET h == FirstNot(line, "#", 1) - 1
  IN  IF h >= 1 /\ h <= 6 /\ h + 1 <= Len(line) /\ line[h + 1] \in Whitespace THEN h ELSE 0

\* re.match(r"^\s*-{3,}\s*$", line)
IsRule(line) ==
  LET t == Strip(line)
  IN  Len(t) >= 3 /\ SeqToSet(t) = {"-"}

\* line.startswith("```")
IsFence(line) == StartsWith(line, <<BACKTICK, BACKTICK, BACKTICK>>)

\* line.lstrip().startswith(">")
IsQuote(line) == StartsWith(LStrip(line), <<">">>)

\* re.sub(r"^\s*>\s?", "", line)
Dequote(line) ==
  LET p == SkipWs(line, 1)
  IN  IF p <= Len(line) /\ line[p] = ">"
      THEN IF p + 1 <= Len(line) /\ line[p + 1] \in Whitespace THEN From(line, p + 2)
           ELSE From(line, p + 1)
      ELSE line

RECURSIVE _collect_until_end(_, _, _)
\* [inner |-> the lines before the first end marker of the kind, i |-> the next index]
_collect_until_end(lines, start, marker_type) ==
  IF start > Len(lines) THEN [inner |-> <<>>, i |-> start]
  ELSE Let(EndMarkerMatch(lines[start]), LAMBDA m :
       IF m.found /\ m.kind = marker_type THEN [inner |-> <<>>, i |-> start + 1]
       ELSE Let(_collect_until_end(lines, start + 1, marker_type), LAMBDA rest :
            [inner |-> <<lines[start]>> \o rest.inner, i |-> rest.i]))

RECURSIVE _collect_blockquote(_, _)
\* The index after the run of quote lines that starts at start.
_collect_blockquote(lines, start) ==
  IF start <= Len(lines) /\ IsQuote(lines[start]) THEN _collect_blockquote(lines, start + 1)
  ELSE start

RECURSIVE _collect_paragraph(_, _)
\* The index after the lines the paragraph that starts at start collects.
_collect_paragraph(lines, start) ==
  IF start > Len(lines) THEN start
  ELSE LET line == lines[start]
       IN  IF \/ IsBlank(line)
              \/ StartMarkerMatch(line).found
              \/ IsFence(line)
              \/ IsQuote(line)
              \/ ListPrefixIndent(line) >= 0
              \/ HeadingLevel(line) > 0
              \/ IsRule(line)
           THEN start
           ELSE _collect_paragraph(lines, start + 1)

RECURSIVE ParagraphContent(_, _)
\* The loop of _parse_paragraph over the lines from idx on.
ParagraphContent(lines, idx) ==
  IF idx > Len(lines) THEN <<>>
  ELSE LET line == lines[idx]
           hard_break == EndsWith(line, <<SP, SP>>)
       IN  _parse_inlines(RStrip(line))
             \o (IF hard_break THEN << [type |-> "hardBreak"] >>
                 ELSE IF idx < Len(lines) THEN <<_make_text(<<SP>>, <<>>)>>
                 ELSE <<>>)
             \o ParagraphContent(lines, idx + 1)

_parse_paragraph(lines) ==
  Let(ParagraphContent(lines, 1), LAMBDA content :
  [type |-> "paragraph",
   content |-> _merge_text_nodes(IF content = <<>> THEN <<_make_text(<<>>, <<>>)>>
                                 ELSE content)])

RECURSIVE FenceEnd(_, _)
\* The first index >= i of a line that starts with a fence, or len(lines) + 1.
FenceEnd(lines, i) ==
  IF i <= Len(lines) /\ ~IsFence(lines[i]) THEN FenceEnd(lines, i + 1) ELSE i

\* _parse_code_block: [node |-> the codeBlock, i |-> the next index]
_parse_code_block(lines, start) ==
  LET language == Strip(From(lines[start], 4))
      stop == FenceEnd(lines, start + 1)
      code_text == JoinWith(<<NL>>, SubSeq(lines, start + 1, stop - 1))
  IN  [node |-> [type |-> "codeBlock", content |-> << [type |-> "text", text |-> code_text] >>]
                  @@ (IF language # <<>> THEN "attrs" :> [language |-> language]
                      ELSE EmptyDict),
       i |-> IF stop <= Len(lines) THEN stop + 1 ELSE stop]

RECURSIVE _parse_list(_, _, _)
RECURSIVE ListItems(_, _, _)

\* The while loop of _parse_list: [items |-> the list items, i |-> the next index]
ListItems(lines, i, base_indent) ==
  IF i > Len(lines) THEN [items |-> <<>>, i |-> i]
  ELSE
    LET line == lines[i]
        indent == ListPrefixIndent(line)
        text == From(line, ListPrefixEnd(line))
    IN  Let(_parse_paragraph(<<Strip(text)>>), LAMBDA paragraph :
        LET next_indent == IF i + 1 <= Len(lines) THEN ListPrefixIndent(lines[i + 1]) ELSE -1
        IN  Let(IF next_indent > base_indent
                THEN _parse_list(lines, i + 1, next_indent)
                ELSE [none |-> TRUE, i |-> i + 1], LAMBDA nested :
            LET item == [type |-> "listItem",
                         content |-> IF next_indent > base_indent THEN <<paragraph, nested.node>>
                                     ELSE <<paragraph>>]
            IN
            Let(ListItems(lines, nested.i, base_indent), LAMBDA rest :
            IF indent < 0 \/ text = <<>> \/ indent # base_indent THEN [items |-> <<>>, i |-> i]
            ELSE [items |-> <<item>> \o rest.items, i |-> rest.i])))

\* Every list taken for a bullet list, whatever its first line starts with.
_parse_list_bullet(lines, start, base_indent) ==
  Let(ListItems(lines, start, base_indent), LAMBDA r :
      [node |-> [type |-> "bulletList", content |-> r.items], i |-> r.i])

\* _parse_list: [node |-> the list, i |-> the next index]
_parse_list(lines, start, base_indent) ==
  LET first_line == lines[start]
      e == DigitRunEnd(first_line, base_indent + 1)
      ordered == /\ SkipWs(first_line, 1) >= base_indent + 1
                 /\ e >= base_indent + 1
                 /\ e + 2 <= Len(first_line)
                 /\ first_line[e + 1] = "."
                 /\ first_line[e + 2] \in Whitespace
  IN  Let(ListItems(lines, start, base_indent), LAMBDA r :
      [node |-> [type |-> IF ordered THEN "orderedList" ELSE "bulletList", content |-> r.items],
       i |-> r.i])

(***************************************************************************)
(* converter/md2adf.py: tables                                             *)
(***************************************************************************)
RECURSIVE CollapseNewlines(_)
\* re.sub(r"\n{2,}", "\n\n", s)
CollapseNewlines(s) ==
  IF s = <<>> THEN <<>>
  ELSE IF IsAt(s, <<NL, NL>>, 1) THEN <<NL, NL>> \o CollapseNewlines(From(s, FirstNot(s, NL, 1)))
  ELSE <<s[1]>> \o CollapseNewlines(Tail(s))

RECURSIVE SplitOnSeq(_, _)
\* s.split(pat)
SplitOnSeq(s, pat) ==
  LET i == Find(s, pat, 1)
  IN  IF i = 0 THEN <<s>>
      ELSE <<SubSeq(s, 1, i - 1)>> \o SplitOnSeq(From(s, i + Len(pat)), pat)

Flush(paragraph_nodes) ==
  IF paragraph_nodes # <<>>
  THEN << [type |-> "paragraph", content |-> _merge_text_nodes(paragraph_nodes)] >>
  ELSE <<>>

RECURSIVE GroupBlocks(_, _, _)
\* The loop of _parse_table_cell over the inline nodes of one group (with a
\* hardBreak between its lines): an extension closes the open paragraph.
GroupBlocks(items, i, paragraph_nodes) ==
  IF i > Len(items) THEN Flush(paragraph_nodes)
  ELSE IF items[i].type = "extension"
  THEN Flush(paragraph_nodes) \o <<items[i]>> \o GroupBlocks(items, i + 1, <<>>)
  ELSE GroupBlocks(items, i + 1, Append(paragraph_nodes, items[i]))

\* The inline nodes of the lines of a group, a hardBreak after each line but the last.
GroupItems(group) ==
  LET lines == SplitOn(group, NL)
  IN  Cat([idx \in 1..Len(lines) |->
             _parse_inlines(lines[idx])
               \o (IF idx < Len(lines) THEN << [type |-> "hardBreak"] >> ELSE <<>>)])

CellBlocks(inner) ==
  Let(SplitOnSeq(CollapseNewlines(Replace(inner, <<BR>>, <<NL>>)), <<NL, NL>>), LAMBDA groups :
  Let(Cat([g \in 1..Len(groups) |->
             IF groups[g] = <<>> THEN << [type |-> "paragraph"] >>
             ELSE GroupBlocks(GroupItems(groups[g]), 1, <<>>)]), LAMBDA blocks :
  IF blocks = <<>>
  THEN << [type |-> "paragraph", content |-> <<_make_text(<<>>, <<>>)>>] >>
  ELSE blocks))

\* The cell_attrs of _parse_table_cell
CellAttrs(attrs) ==
  LET colwidth == Get(attrs, "colwidth", <<>>)
      items == SplitOn(colwidth, ",")
      numbers == SelectSeq([k \in 1..Len(items) |-> _parse_number(Some(items[k]))],
                           LAMBDA n : n # None)
      colspan == _parse_number(Opt(attrs, "colspan"))
      rowspan == _parse_number(Opt(attrs, "rowspan"))
      background == Get(attrs, "background", <<>>)
      has_attrs == colwidth # <<>> \/ colspan # None \/ rowspan # None \/ background # <<>>
  IN  (IF colwidth # <<>> THEN "colwidth" :> [k \in 1..Len(numbers) |-> numbers[k][1]]
       ELSE EmptyDict)
        @@ (IF has_attrs
            THEN [colspan |-> IF colspan # None THEN colspan[1] ELSE 1,
                  rowspan |-> IF rowspan # None THEN rowspan[1] ELSE 1]
            ELSE EmptyDict)
        @@ (IF background # <<>> THEN "background" :> background ELSE EmptyDict)

\* _parse_table_cell, as a list of zero or one node
_parse_table_cell(cell) ==
  Let(InlineMarkerSearch(cell, 1), LAMBDA start_match :
  LET marker_type == start_match.kind
      end_marker == <<ENDOPEN>> \o marker_type \o <<SP, CLOSE>>
      end_pos == Find(cell, end_marker, start_match.end + 1)
      inner == SubSeq(cell, start_match.end + 1, end_pos - 1)
  IN
  Let(CellAttrs(_parse_attrs(start_match.attrs)), LAMBDA cell_attrs :
  IF ~start_match.found THEN <<>>
  ELSE IF marker_type \notin {<<"tableCell">>, <<"tableHeader">>} THEN <<>>
  ELSE IF end_pos = 0 THEN <<>>
  ELSE << [type |-> marker_type[1], content |-> CellBlocks(inner)]
            @@ (IF DOMAIN cell_attrs # {} THEN "attrs" :> cell_attrs ELSE EmptyDict) >>))

\* _parse_table_row, as a list of zero or one node
_parse_table_row(line) ==
  LET stripped == Strip(line)
      t1 == IF StartsWith(stripped, <<"|">>) THEN Tail(stripped) ELSE stripped
      row_text == IF EndsWith(t1, <<"|">>) THEN SubSeq(t1, 1, Len(t1) - 1) ELSE t1
  IN  Let(SplitOn(row_text, "|"), LAMBDA raw :
      LET cells == SelectSeq([k \in 1..Len(raw) |-> Strip(raw[k])], LAMBDA c : c # <<>>)
      IN
      Let(Cat([k \in 1..Len(cells) |-> _parse_table_cell(cells[k])]), LAMBDA cell_nodes :
      IF cell_nodes = <<>> THEN <<>>
      ELSE << [type |-> "tableRow", content |-> cell_nodes] >>))

\* re.match(r"^\s*\|\s*-{3,}", line)
IsSeparatorRow(line) ==
  LET p == SkipWs(line, 1)
      q == SkipWs(line, p + 1)
  IN  p <= Len(line) /\ line[p] = "|" /\ IsAt(line, <<"-", "-", "-">>, q)

\* The defaults written over the spans the marker gave (update, not setdefault).
WithSpanDefaults_update(row) ==
  [type |-> "tableRow",
   content |-> [k \in 1..Len(row.content) |->
                  LET cell == row.content[k]
                  IN  [type |-> cell.type, content |-> cell.content,
                       attrs |-> [colspan |-> 1, rowspan |-> 1] @@ Get(cell, "attrs", EmptyDict)]]]

\* cell_attrs.setdefault("colspan", 1); cell_attrs.setdefault("rowspan", 1)
WithSpanDefaults(row) ==
  [type |-> "tableRow",
   content |-> [k \in 1..Len(row.content) |->
                  LET cell == row.content[k]
                  IN  [type |-> cell.type, content |-> cell.content,
                       attrs |-> Get(cell, "attrs", EmptyDict) @@ [colspan |-> 1, rowspan |-> 1]]]]

RECURSIVE Sum(_)
Sum(ns) == IF ns = <<>> THEN 0 ELSE Head(ns) + Sum(Tail(ns))

WIDTH_DEFAULT == 760
MIN_COLUMNS == 3

\* _parse_table: [node |-> the table, self |-> the parser after the call]
_parse_table(self, lines, attrs) ==
  LET _table_count == self._table_count + 1
      is_first_table == _table_count = 1
      has_cell_attrs == \E k \in 1..Len(lines) :
                          \E key \in {"colwidth", "colspan", "rowspan"} :
                            Find(lines[k], <<key, "=">>, 1) # 0
      has_strong_text == \E k \in 1..Len(lines) : Find(lines[k], <<"*", "*">>, 1) # 0
      kept == SelectSeq(lines, LAMBDA line :
                ~IsBlank(line) /\ ~IsSeparatorRow(line) /\ First(line, "|", 1) # 0)
  IN  Let(Cat([k \in 1..Len(kept) |-> _parse_table_row(kept[k])]), LAMBDA rows :
      LET is_number == _parse_bool(Opt(attrs, "isNumberColumnEnabled"))
          width == _parse_number(Opt(attrs, "width"))
      IN  Let((IF is_number # None THEN "isNumberColumnEnabled" :> is_number[1] ELSE EmptyDict)
                @@ (IF width # None THEN "width" :> width[1] ELSE EmptyDict)
                @@ OptField(attrs, "layout")
                @@ OptField(attrs, "displayMode"), LAMBDA given :
          LET defaulted == given @@ [layout |-> <<"default">>, width |-> WIDTH_DEFAULT]
              column_count == Sum([k \in 1..Len(rows[1].content) |->
                                     Get(Get(rows[1].content[k], "attrs", EmptyDict), "colspan", 1)])
          IN
          Let(IF has_cell_attrs \/ has_strong_text \/ DOMAIN given # {}
              THEN IF /\ has_cell_attrs
                      /\ ~Has(defaulted, "displayMode")
                      /\ ~Get(defaulted, "isNumberColumnEnabled", FALSE)
                      /\ is_first_table
                      /\ rows # <<>>
                      /\ column_count >= MIN_COLUMNS
                   THEN defaulted @@ [displayMode |-> <<"default">>]
                   ELSE defaulted
              ELSE given, LAMBDA table_attrs :
          [node |-> IF DOMAIN table_attrs # {}
                    THEN [type |-> "table",
                          content |-> [k \in 1..Len(rows) |-> WithSpanDefaults(rows[k])],
                          attrs |-> table_attrs]
                    ELSE [type |-> "table", content |-> rows],
           self |-> [self EXCEPT !._table_count = _table_count]])))

(***************************************************************************)
(* converter/md2adf.py: blocks                                             *)
(*                                                                         *)
(* self is the MarkdownParser: [_nested_tables |-> the dict from reference *)
(* id to deferred document, _table_count |-> the tables parsed so far].    *)
(* A block operator returns [ok |-> TRUE, nodes, (i,) self] or, when the   *)
(* loop of _parse_blocks stops advancing, the error NoProgress: the call   *)
(* never returns.                                                          *)
(***************************************************************************)
NoProgress == [ok |-> FALSE, err |-> "NoProgress", msg |-> "the loop never advances"]

Step(nodes, i, self) == [ok |-> TRUE, nodes |-> nodes, i |-> i, self |-> self]

\* str.upper() of an atom: the lower-case letters of the alphabet have an
\* upper-case atom, every other atom is kept.
UpperAtom(a) ==
  CASE a = "a" -> "A" [] a = "b" -> "B" [] a = "c" -> "C" [] a = "d" -> "D"
    [] a = "e" -> "E" [] a = "n" -> "N" [] a = "s" -> "S" [] a = "u" -> "U"
    [] OTHER -> a

Upper(s) == [k \in 1..Len(s) |-> UpperAtom(s[k])]

RECURSIVE EndOfMedia(_, _)
\* The first index >= i of an end marker of kind media, or len(lines) + 1.
EndOfMedia(lines, i) ==
  IF i > Len(lines) THEN i
  ELSE IF EndMarkerMatch(lines[i]).found /\ EndMarkerMatch(lines[i]).kind = <<"media">>
  THEN i
  ELSE EndOfMedia(lines, i + 1)

\* _parse_media_block: [node |-> the media node, i |-> the next index]
_parse_media_block(lines, start, attrs) ==
  Let(EndOfMedia(lines, start + 1), LAMBDA stop :
  [node |-> [type |-> "media",
             attrs |-> (IF Has(attrs, "id") THEN "id" :> attrs.id ELSE EmptyDict)
                         @@ (IF Has(attrs, "collection")
                             THEN "collection" :> attrs.collection ELSE EmptyDict)
                         @@ (IF Has(attrs, "type") THEN "type" :> attrs.type ELSE EmptyDict)
                         @@ MediaExtras(attrs)]
              @@ BorderMarks(attrs),
   i |-> IF stop <= Len(lines) THEN stop + 1 ELSE stop])

\* _parse_caption_block: [node |-> the caption node, i |-> the next index]
_parse_caption_block(lines, start) ==
  Let(_collect_until_end(lines, start + 1, <<"caption">>), LAMBDA col :
  LET kept == SelectSeq([k \in 1..Len(col.inner) |-> Strip(col.inner[k])],
                        LAMBDA l : l # <<>>)
  IN  Let(JoinWith(<<NL>>, kept), LAMBDA joined :
      LET text == IF StartsWith(joined, <<"*">>) /\ EndsWith(joined, <<"*">>) /\ Len(joined) > 1
                  THEN SubSeq(joined, 2, Len(joined) - 1) ELSE joined
      IN  [node |-> [type |-> "caption", content |-> _merge_text_nodes(_parse_inlines(text))],
           i |-> col.i]))

RECURSIVE MediaContent(_, _, _)
\* The loops of _parse_media_single (kinds media and caption) and
\* _parse_media_group (kind media) over the lines from i on.
MediaContent(lines, i, kinds) ==
  IF i > Len(lines) THEN <<>>
  ELSE Let(StartMarkerMatch(lines[i]), LAMBDA sm :
       Let(IF sm.kind = <<"media">>
           THEN _parse_media_block(lines, i, _parse_attrs(sm.attrs))
           ELSE _parse_caption_block(lines, i), LAMBDA r :
       IF sm.found /\ sm.kind \in kinds
       THEN <<r.node>> \o MediaContent(lines, r.i, kinds)
       ELSE MediaContent(lines, i + 1, kinds)))

_parse_media_single(lines, attrs) ==
  LET width == _parse_number(Opt(attrs, "width"))
      attrs_out == (IF Has(attrs, "layout") THEN "layout" :> attrs.layout ELSE EmptyDict)
                     @@ (IF width # None THEN "width" :> width[1] ELSE EmptyDict)
                     @@ (IF Has(attrs, "widthType")
                         THEN "widthType" :> attrs.widthType ELSE EmptyDict)
  IN  [type |-> "mediaSingle",
       content |-> MediaContent(lines, 1, {<<"media">>, <<"caption">>})]
        @@ (IF DOMAIN attrs_out # {} THEN "attrs" :> attrs_out ELSE EmptyDict)

_parse_media_group(lines) ==
  [type |-> "mediaGroup", content |-> MediaContent(lines, 1, {<<"media">>})]

\* The marker kinds _parse_blocks opens a block for.
BlockKinds ==
  {<<"doc">>, <<"panel">>, <<"expand">>, <<"nestedExpand">>, <<"table">>,
   <<"mediaSingle">>, <<"mediaGroup">>, <<"nested-table">>, <<"extension">>}

RECURSIVE _parse_blocks(_, _, _)
RECURSIVE BlockStep(_, _, _)
RECURSIVE MarkerStep(_, _, _, _)

\* content, _ = self._parse_blocks(inner, 0, len(inner)) wrapped into a node by wrap
Wrapped(self, inner, next, wrap(_)) ==
  LET r == _parse_blocks(self, inner, 1)
  IN  IF ~r.ok THEN r ELSE Step(<<wrap(r.nodes)>>, next, r.self)

\* The lines of a panel without the label line _parse_panel drops.
PanelLines(lines, panel_type) ==
  Let([k \in 1..Len(lines) |-> Dequote(lines[k])], LAMBDA dequoted :
  LET label == <<"*", "*">> \o Upper(panel_type) \o <<"*", "*">>
      d1 == IF panel_type # <<>> /\ dequoted # <<>> /\ StartsWith(Strip(dequoted[1]), label)
            THEN Tail(dequoted) ELSE dequoted
  IN  IF d1 # dequoted /\ d1 # <<>> /\ IsBlank(d1[1]) THEN Tail(d1) ELSE d1)

\* The lines of an expand without the title line _parse_expand drops.
ExpandLines(lines) ==
  LET first == Strip(lines[1])
      title_match == /\ Len(first) >= 5
                     /\ StartsWith(first, <<"*", "*">>)
                     /\ EndsWith(first, <<"*", "*">>)
  IN  Let(IF title_match THEN Tail(lines) ELSE lines, LAMBDA c1 :
      IF lines = <<>> THEN lines
      ELSE IF c1 # <<>> /\ IsBlank(c1[1]) THEN Tail(c1) ELSE c1)

\* _parse_nested_table
_parse_nested_table(self, lines, attrs, next) ==
  LET ref == Get(attrs, "ref", <<>>)
      filtered_lines == SelectSeq(lines, LAMBDA line : ~StartsWith(Strip(line), <<"<a", SP>>))
  IN  Let(_parse_blocks(self, filtered_lines, 1), LAMBDA r :
      IF ref = <<>> THEN Step(<<>>, next, self)
      ELSE IF ~r.ok THEN r
      ELSE IF r.nodes # <<>> /\ r.nodes[1].type = "doc"
      THEN Step(<<>>, next,
                [r.self EXCEPT !._nested_tables = (ref :> r.nodes[1]) @@ @])
      ELSE Step(<<>>, next, r.self))

\* _parse_extension_block
_parse_extension_block(self, lines, attrs, next) ==
  Let(_parse_blocks(self, lines, 1), LAMBDA r :
  LET has_doc == r.nodes # <<>> /\ r.nodes[1].type = "doc"
      parameters ==
        IF has_doc
        THEN ("adf" :> json_dumps(r.nodes[1]))
               @@ (IF attrs.extensionKey = <<"nested-table">>
                   THEN "reason" :> NESTED_TABLE_REASON ELSE EmptyDict)
        ELSE EmptyDict
  IN  IF ~AttrSet(attrs, "extensionType") \/ ~AttrSet(attrs, "extensionKey")
      THEN Step(<<>>, next, self)
      ELSE IF ~r.ok THEN r
      ELSE Step(<< [type |-> "extension",
                    attrs |-> [extensionType |-> attrs.extensionType,
                               extensionKey |-> attrs.extensionKey,
                               text |-> Get(attrs, "text", <<>>)]
                                @@ (IF DOMAIN parameters # {}
                                    THEN "parameters" :> parameters ELSE EmptyDict)] >>,
                next, r.self))

\* The branch of _parse_blocks for a start marker of one of the block kinds.
MarkerStep(self, lines, i, sm) ==
  LET marker_type == sm.kind
  IN  Let(_parse_attrs(sm.attrs), LAMBDA attrs :
      Let(_collect_until_end(lines, i + 1, marker_type), LAMBDA col :
      LET version == _parse_number(Opt(attrs, "version"))
          DocOf(content) ==
            [type |-> "doc", content |-> content]
              @@ (IF version # None THEN "version" :> version[1] ELSE EmptyDict)
          PanelOf(content) ==
            [type |-> "panel", content |-> content]
              @@ (IF AttrSet(attrs, "panelType")
                  THEN "attrs" :> [panelType |-> attrs.panelType] ELSE EmptyDict)
          ExpandOf(content) ==
            [type |-> marker_type[1], content |-> content]
              @@ (IF AttrSet(attrs, "title") THEN "attrs" :> [title |-> attrs.title]
                  ELSE EmptyDict)
      IN
      Let(_parse_table(self, col.inner, attrs), LAMBDA table :
      CASE marker_type = <<"doc">> -> Wrapped(self, col.inner, col.i, DocOf)
        [] marker_type = <<"panel">> ->
             Wrapped(self, PanelLines(col.inner, Get(attrs, "panelType", <<>>)), col.i, PanelOf)
        [] marker_type \in {<<"expand">>, <<"nestedExpand">>} ->
             Wrapped(self, ExpandLines(col.inner), col.i, ExpandOf)
        [] marker_type = <<"table">> -> Step(<<table.node>>, col.i, table.self)
        [] marker_type = <<"mediaSingle">> ->
             Step(<<_parse_media_single(col.inner, attrs)>>, col.i, self)
        [] marker_type = <<"mediaGroup">> ->
             Step(<<_parse_media_group(col.inner)>>, col.i, self)
        [] marker_type = <<"nested-table">> ->
             _parse_nested_table(self, col.inner, attrs, col.i)
        [] marker_type = <<"extension">> ->
             _parse_extension_block(self, col.inner, attrs, col.i))))

\* The body of the while loop of _parse_blocks at line i: the nodes it
\* appends and the index it leaves (the index it was given, when _parse_list
\* matched no item).
LoopBody(self, lines, i) ==
  LET line == lines[i]
  IN  Let(StartMarkerMatch(line), LAMBDA sm :
      LET after_blank == CHOOSE j \in i + 1..Len(lines) + 1 :
                           /\ \A k \in i..j - 1 : IsBlank(lines[k])
                           /\ j = Len(lines) + 1 \/ ~IsBlank(lines[j])
          blank_count == after_blank - i
          code == _parse_code_block(lines, i)
          quote_end == _collect_blockquote(lines, i)
          quote == Wrapped(self, [k \in 1..quote_end - i |-> Dequote(lines[i + k - 1])],
                           quote_end, LAMBDA content : [type |-> "blockquote", content |-> content])
      IN  Let(_parse_list(lines, i, ListPrefixIndent(line)), LAMBDA list :
          LET level == HeadingLevel(line)
          IN  Let(_collect_paragraph(lines, i), LAMBDA para_end :
              IF IsBlank(line)
              THEN Step([k \in 1..Max({blank_count - 2, 0}) |-> [type |-> "paragraph"]],
                        after_blank, self)
              ELSE IF sm.found /\ sm.kind \in BlockKinds THEN MarkerStep(self, lines, i, sm)
              ELSE IF IsFence(line) THEN Step(<<code.node>>, code.i, self)
              ELSE IF IsQuote(line) THEN quote
              ELSE IF ListPrefixIndent(line) >= 0
              THEN Step(<<list.node>>, list.i, self)
              ELSE IF level > 0
              THEN Step(<< [type |-> "heading", attrs |-> [level |-> level],
                            content |-> _parse_inlines(From(line, SkipWs(line, level + 1)))] >>,
                        i + 1, self)
              ELSE IF IsRule(line) THEN Step(<< [type |-> "rule"] >>, i + 1, self)
              ELSE IF para_end > i
              THEN Step(<<_parse_paragraph(SubSeq(lines, i, para_end - 1))>>, para_end, self)
              ELSE Step(<<>>, i + 1, self))))

\* One iteration of the while loop of _parse_blocks at line i, run to the
\* end of the call: an iteration that leaves the index where it was repeats
\* for ever.
BlockStep(self, lines, i) ==
  Let(LoopBody(self, lines, i), LAMBDA step :
      IF step.ok /\ step.i = i THEN NoProgress ELSE step)

\* _parse_blocks(lines, i - 1, len(lines)): [ok |-> TRUE, nodes, self]
_parse_blocks(self, lines, i) ==
  IF i > Len(lines) THEN [ok |-> TRUE, nodes |-> <<>>, self |-> self]
  ELSE Let(BlockStep(self, lines, i), LAMBDA step :
       Let(_parse_blocks(step.self, lines, step.i), LAMBDA rest :
       IF ~step.ok THEN step
       ELSE IF ~rest.ok THEN rest
       ELSE [ok |-> TRUE, nodes |-> step.nodes \o rest.nodes, self |-> rest.self]))

(***************************************************************************)
(* converter/md2adf.py: MarkdownParser.parse; adfmd.py: ADFMD.from_markdown *)
(***************************************************************************)
\* MarkdownParser.__init__
NewParser == [_nested_tables |-> EmptyDict, _table_count |-> 0]

IsNestedTableExtension(node) ==
  /\ node.type = "extension"
  /\ Has(node, "attrs")
  /\ Get(node.attrs, "extensionType", <<>>) = NESTED_TABLE_TYPE
  /\ Get(node.attrs, "extensionKey", <<>>) = NESTED_TABLE_KEY

\* The body of the loop of _attach_nested_tables for one nested-table extension.
AttachOne(_nested_tables, node) ==
  LET attrs == node.attrs @@ [text |-> <<>>, parameters |-> EmptyDict]
      params == attrs.parameters
      ref == Get(params, "ref", <<>>)
      others == [k \in DOMAIN params \ {"ref"} |-> params[k]]
      resolved == ("adf" :> json_dumps(_nested_tables[ref])) @@ others
                    @@ ("reason" :> NESTED_TABLE_REASON)
  IN  [type |-> "extension",
       attrs |-> IF ref # <<>> /\ ref \in DOMAIN _nested_tables
                 THEN ("parameters" :> resolved) @@ attrs
                 ELSE attrs]

RECURSIVE _attach_nested_tables(_, _)
\* _attach_nested_tables on one node and the nodes _walk_nodes reaches from it
_attach_nested_tables(_nested_tables, node) ==
  Let(IF IsNestedTableExtension(node) THEN AttachOne(_nested_tables, node) ELSE node, LAMBDA here :
  IF Has(here, "content")
  THEN ("content" :> [k \in 1..Len(here.content) |->
                        _attach_nested_tables(_nested_tables, here.content[k])]) @@ here
  ELSE here)

RECURSIVE _ensure_text_marks_recursive(_, _)
\* _ensure_text_marks_recursive on a node, through its content
_ensure_text_marks_recursive(node, parent_type) ==
  LET here == IF node.type # "text" THEN node
              ELSE IF parent_type = "codeBlock"
              THEN [k \in DOMAIN node \ {"marks"} |-> node[k]]
              ELSE IF ~Has(node, "marks") THEN node @@ [marks |-> <<>>]
              ELSE node
  IN  IF Has(here, "content")
      THEN ("content" :> [k \in 1..Len(here.content) |->
                            _ensure_text_marks_recursive(here.content[k], node.type)]) @@ here
      ELSE here

\* MarkdownParser.parse: [ok |-> TRUE, v |-> [isList, v], self] or NoProgress.
\* _order_node permutes the keys of the dicts, which a record does not carry.
parse(self, markdown) ==
  Let(_parse_blocks(self, splitlines(markdown), 1), LAMBDA r :
  LET attached == IF DOMAIN r.self._nested_tables # {}
                  THEN [k \in 1..Len(r.nodes) |->
                          _attach_nested_tables(r.self._nested_tables, r.nodes[k])]
                  ELSE r.nodes
  IN  Let(_merge_text_nodes(attached), LAMBDA merged :
      Let([k \in 1..Len(merged) |-> _ensure_text_marks_recursive(merged[k], "None")], LAMBDA nodes :
      IF ~r.ok THEN r
      ELSE [ok |-> TRUE,
            v |-> [isList |-> Len(nodes) # 1, v |-> nodes],
            self |-> r.self])))

\* MD2ADFRegistry.convert: the registry holds one parser for its lifetime
MD2ADFRegistry_convert(self, markdown) == parse(self.parser, markdown)

\* ADFMD.from_markdown: the tree or the error, and the parser after the call
from_markdown(self, markdown) == MD2ADFRegistry_convert(self.registry_md2adf, markdown)

(***************************************************************************)
(* adfmd.py, __init__.py: an ADFMD instance and the module-level functions  *)
(***************************************************************************)
\* MD2ADFRegistry.__init__
MD2ADFRegistry_init == [parser |-> NewParser]

\* ADFMD.__init__ with the default registries.  The converters of the default
\* ADF2MDRegistry have no fields, so the instance is its Markdown registry.
ADFMD_init == [registry_md2adf |-> MD2ADFRegistry_init]

\* The instance after a from_markdown call that left the parser as parser.
WithParser(self, parser) == [self EXCEPT !.registry_md2adf.parser = parser]

\* What the caller of a conversion gets: the value or the error.
Returned(r) ==
  IF r.ok THEN [ok |-> TRUE, v |-> r.v] ELSE [k \in DOMAIN r \ {"self", "nodes"} |-> r[k]]

\* adfmd.to_markdown(adf_data): ADFMD().to_markdown(adf_data)
module_to_markdown(adf_data) == to_markdown(ADFMD_init, adf_data)

\* adfmd.from_markdown(markdown): ADFMD().from_markdown(markdown)
module_from_markdown(markdown) == Returned(from_markdown(ADFMD_init, markdown))

(***************************************************************************)
(* Input trees.  A tree handed to to_markdown is [isList, v]: one dict      *)
(* (isList FALSE, v of length 1) or a list of dicts.                        *)
(***************************************************************************)
One(dict) == [isList |-> FALSE, v |-> <<dict>>]
Many(dicts) == [isList |-> TRUE, v |-> dicts]

Text(text) == [type |-> "text", text |-> text]
Marked(text, marks) == [type |-> "text", text |-> text, marks |-> marks]
Paragraph(content) == [type |-> "paragraph", content |-> content]
Doc(content) == [type |-> "doc", version |-> 1, content |-> content]
Node(type, content) == [type |-> type, content |-> content]
Leaf(type, attrs) == [type |-> type, attrs |-> attrs]
Branch(type, attrs, content) == [type |-> type, attrs |-> attrs, content |-> content]
Cell(content) == Node("tableCell", content)
Row(cells) == Node("tableRow", cells)
Table(rows) == Node("table", rows)

\* A mark dict of the given type, with the attrs the type carries.
Mark(type) ==
  CASE type = "link" -> [type |-> "link", attrs |-> [href |-> <<"u">>]]
    [] type \in {"textColor", "backgroundColor"} -> [type |-> type, attrs |-> [color |-> <<"c">>]]
    [] type = "subsup" -> [type |-> "subsup", attrs |-> [type |-> <<"sub">>]]
    [] OTHER -> [type |-> type]

\* The nested document of a nested-table extension, as the parser builds it.
NestedDoc == Doc(<<Table(<<Row(<<Cell(<<Paragraph(<<Marked(<<"a">>, <<>>)>>)>>)>>)>>)>>)

\* A nested-table extension node holding NestedDoc.
NestedTable ==
  Leaf("extension", [extensionType |-> NESTED_TABLE_TYPE, extensionKey |-> NESTED_TABLE_KEY,
                     parameters |-> [adf |-> json_dumps(NestedDoc)]])

(***************************************************************************)
(* The inputs of a round trip                                              *)
(***************************************************************************)
\* The longest run of empty paragraphs in an input document.
MaxBlank == 3

MarkKinds ==
  {"strong", "em", "code", "strike", "underline", "link", "textColor",
   "backgroundColor", "subsup"}

\* One mark, or two different marks in either order.
MarkLists ==
  {<<Mark(a)>> : a \in MarkKinds}
    \cup {<<Mark(p[1]), Mark(p[2])>> :
            p \in {q \in MarkKinds \X MarkKinds : q[1] # q[2]}}

\* The texts of a marked node: a word, the href of the link mark, two words.
MarkTexts == {<<"a">>, <<"u">>, <<"a", SP, "b">>}

MarkInputs == {One(Paragraph(<<Marked(t, ms)>>)) : t \in MarkTexts, ms \in MarkLists}

\* A document with k empty paragraphs between two non-empty ones.
BlankDoc(k) ==
  One(Doc(<<Paragraph(<<Text(<<"a">>)>>)>>
            \o [n \in 1..k |-> Paragraph(<<>>)]
            \o <<Paragraph(<<Text(<<"b">>)>>)>>))

BlankInputs == {BlankDoc(k) : k \in 1..MaxBlank}

NodeKinds ==
  {"doc", "text", "paragraph", "heading", "bulletList", "orderedList", "listItem",
   "hardBreak", "rule", "blockquote", "codeBlock", "panel", "expand", "nestedExpand",
   "table", "tableRow", "tableCell", "tableHeader", "status", "mention", "emoji",
   "date", "inlineCard", "media", "mediaInline", "mediaSingle", "mediaGroup",
   "caption", "extension"}

Word(a) == Paragraph(<<Text(<<a>>)>>)
Media == Leaf("media", [id |-> <<"a">>, collection |-> <<"b">>, type |-> <<"c">>])

\* A well-formed tree with a node of the kind.
KindTree(kind) ==
  CASE kind = "doc" -> Doc(<<Word("a")>>)
    [] kind = "text" -> Text(<<"a">>)
    [] kind = "paragraph" -> Word("a")
    [] kind = "heading" -> Branch("heading", [level |-> 2], <<Text(<<"a">>)>>)
    [] kind = "bulletList" -> Node("bulletList", <<Node("listItem", <<Word("a")>>)>>)
    [] kind = "orderedList" -> Node("orderedList", <<Node("listItem", <<Word("a")>>)>>)
    [] kind = "listItem" ->
         Node("bulletList", <<Node("listItem", <<Word("a")>>), Node("listItem", <<Word("b")>>)>>)
    [] kind = "hardBreak" -> Paragraph(<<Text(<<"a">>), [type |-> "hardBreak"], Text(<<"b">>)>>)
    [] kind = "rule" -> Doc(<<Word("a"), [type |-> "rule"]>>)
    [] kind = "blockquote" -> Node("blockquote", <<Word("a")>>)
    [] kind = "codeBlock" -> Branch("codeBlock", [language |-> <<"a">>], <<Text(<<"b">>)>>)
    [] kind = "panel" -> Branch("panel", [panelType |-> <<"a">>], <<Word("b")>>)
    [] kind = "expand" -> Branch("expand", [title |-> <<"a">>], <<Word("b")>>)
    [] kind = "nestedExpand" ->
         Table(<<Row(<<Cell(<<Branch("nestedExpand", [title |-> <<"a">>], <<Word("b")>>)>>)>>)>>)
    [] kind = "table" -> Table(<<Row(<<Cell(<<Word("a")>>)>>)>>)
    [] kind = "tableRow" -> Table(<<Row(<<Cell(<<Word("a")>>)>>), Row(<<Cell(<<Word("b")>>)>>)>>)
    [] kind = "tableCell" -> Table(<<Row(<<Cell(<<Word("a")>>), Cell(<<Word("b")>>)>>)>>)
    [] kind = "tableHeader" ->
         Table(<<Row(<<Node("tableHeader", <<Word("a")>>)>>), Row(<<Cell(<<Word("b")>>)>>)>>)
    [] kind = "status" ->
         Paragraph(<<Leaf("status", [text |-> <<"a">>, color |-> <<"neutral">>])>>)
    [] kind = "mention" -> Paragraph(<<Leaf("mention", [id |-> <<"a">>, text |-> <<"b">>])>>)
    [] kind = "emoji" -> Paragraph(<<Leaf("emoji", [shortName |-> <<"a">>])>>)
    [] kind = "date" -> Paragraph(<<Leaf("date", [timestamp |-> <<"6", "1", "0", "0", "0">>])>>)
    [] kind = "inlineCard" -> Paragraph(<<Leaf("inlineCard", [url |-> <<"u">>])>>)
    [] kind = "media" -> Node("mediaSingle", <<Media>>)
    [] kind = "mediaInline" ->
         Paragraph(<<Leaf("mediaInline",
                          [id |-> <<"a">>, collection |-> <<"b">>, type |-> <<"c">>])>>)
    [] kind = "mediaSingle" -> Branch("mediaSingle", [layout |-> <<"a">>], <<Media>>)
    [] kind = "mediaGroup" -> Node("mediaGroup", <<Media, Media>>)
    [] kind = "caption" -> Node("mediaSingle", <<Media, Node("caption", <<Text(<<"a">>)>>)>>)
    [] kind = "extension" ->
         Leaf("extension", [extensionType |-> <<"a">>, extensionKey |-> <<"b">>,
                            text |-> <<"c">>])

KindInputs == {One(KindTree(kind)) : kind \in NodeKinds}

Bogus == [type |-> "bogus"]

\* Trees with a node of an unsupported type, at the root or below it.
BadInputs ==
  {One(Bogus),
   One(Paragraph(<<Bogus>>)),
   One(Doc(<<Word("a"), Paragraph(<<Text(<<"b">>), Bogus>>)>>)),
   One(Node("bulletList", <<Node("listItem", <<Bogus>>)>>)),
   One(Table(<<Row(<<Cell(<<Bogus>>)>>)>>)),
   One(Node("blockquote", <<Bogus>>)),
   One(Branch("panel", [panelType |-> <<"a">>], <<Bogus>>)),
   One(Node("codeBlock", <<Bogus>>))}

\* The kinds with a required attribute.
RequiredKinds == {"heading", "mention", "inlineCard", "date"}

\* A node of the kind without its required attribute: no attrs, attrs null,
\* attrs without the key.
MissingForms == {"missing", "null", "lacks"}
MissingTree(kind, form) ==
  CASE form = "missing" -> [type |-> kind]
    [] form = "null" -> [type |-> kind, attrs |-> Null]
    [] form = "lacks" -> [type |-> kind, attrs |-> [text |-> <<"b">>]]

MissingInputs == {One(MissingTree(kind, form)) : kind \in RequiredKinds, form \in MissingForms}

\* An outer table with a nested table in its cell: the cell's sole content,
\* or after a sibling paragraph.
SoleTable == Table(<<Row(<<Cell(<<NestedTable>>)>>)>>)
SiblingTable == Table(<<Row(<<Cell(<<Word("s"), NestedTable>>)>>)>>)

NestedInputs == {One(SoleTable), One(SiblingTable), One(Doc(<<SoleTable>>)), One(Doc(<<SiblingTable>>))}

\* Tables whose cells span columns and rows.  A span is absent or 2..MaxSpan;
\* every row holds at least one cell.
MaxSpan == 2
Spans == {None} \cup {Some(n) : n \in 2..MaxSpan}
SpanCell(text, colspan, rowspan) ==
  LET attrs == (IF colspan = None THEN EmptyDict ELSE [colspan |-> colspan[1]])
                 @@ (IF rowspan = None THEN EmptyDict ELSE [rowspan |-> rowspan[1]])
  IN  IF DOMAIN attrs = {} THEN Cell(<<Word(text)>>)
      ELSE Branch("tableCell", attrs, <<Word(text)>>)
CellTexts == <<"a", "b", "c", "d">>
\* The numbers of cells of the two rows.
SpanShapes == {<<1, 1>>, <<2, 1>>, <<1, 2>>}
SpanTable(shape, spans) ==
  LET cell(k) == SpanCell(CellTexts[k], spans[k][1], spans[k][2])
  IN  Table(<<Row([k \in 1..shape[1] |-> cell(k)]),
              Row([k \in 1..shape[2] |-> cell(shape[1] + k)])>>)
\* A rowspan cell between two plain cells, over a row of one cell: the cell
\* of the second row has the two columns the rowspan leaves free.
StraddleTable(colspan) ==
  Table(<<Row(<<SpanCell("a", None, None), SpanCell("b", None, Some(2)),
                SpanCell("c", None, None)>>),
          Row(<<SpanCell("d", colspan, None)>>)>>)
\* Three rows: a rowspan over the first two, a cell with both spans in the third.
TallTable ==
  Table(<<Row(<<SpanCell("a", None, Some(2)), SpanCell("b", Some(2), None)>>),
          Row(<<SpanCell("c", None, None), SpanCell("d", None, None)>>),
          Row(<<SpanCell("a", Some(2), Some(2)), SpanCell("b", None, None)>>)>>)
\* Some cell of the table has a colspan or a rowspan.
AnySpan(table) ==
  \E r \in 1..Len(table.content) : \E c \in 1..Len(table.content[r].content) :
    "attrs" \in DOMAIN table.content[r].content[c]
SpanTables ==
  {t \in {SpanTable(shape, spans) :
            shape \in SpanShapes, spans \in [1..3 -> Spans \X Spans]} : AnySpan(t)}
    \cup {StraddleTable(None), StraddleTable(Some(2)), TallTable}
SpanInputs == {One(t) : t \in SpanTables}

\* Lists nested up to MaxDepth levels.  An item is one paragraph, optionally
\* followed by one list: a bullet list in a bullet list, a bullet or an
\* ordered list in an ordered list.  A list has one item or two, and at most
\* one of them holds a list.
MaxDepth == 3
NestedKinds(kind) ==
  IF kind = "bulletList" THEN {"bulletList"} ELSE {"bulletList", "orderedList"}
Item(text, nested) == Node("listItem", <<Word(text)>> \o nested)
RECURSIVE ListsOf(_, _)
ListsOf(depth, kind) ==
  LET inner == IF depth = 1 THEN {}
               ELSE UNION {ListsOf(depth - 1, k) : k \in NestedKinds(kind)}
      nested == {<<>>} \cup {<<l>> : l \in inner}
  IN  {Node(kind, <<Item("a", n)>>) : n \in nested}
        \cup {Node(kind, <<Item("a", n), Item("b", <<>>)>>) : n \in nested}
        \cup {Node(kind, <<Item("a", <<>>), Item("b", n)>>) : n \in nested}
ListInputs ==
  {One(l) : l \in ListsOf(MaxDepth, "bulletList") \cup ListsOf(MaxDepth, "orderedList")}

\* Headings of the levels 0..MaxLevel, alone and before a paragraph.
MaxLevel == 7
HeadingTexts == {<<"a">>, <<"a", SP, "c">>}
Heading(level, text) == Branch("heading", [level |-> level], <<Text(text)>>)
HeadingInputs ==
  {One(Heading(level, text)) : level \in 0..MaxLevel, text \in HeadingTexts}
    \cup {Many(<<Heading(level, text), Word("b")>>) : level \in 0..MaxLevel, text \in HeadingTexts}

\* Mentions in a paragraph: the id, and each of text, userType and accessLevel
\* absent or given; the text also empty and of two words.
MentionAttrs(text, userType, accessLevel) ==
  [id |-> <<"a">>]
    @@ (IF text = None THEN EmptyDict ELSE [text |-> text[1]])
    @@ (IF userType = None THEN EmptyDict ELSE [userType |-> userType[1]])
    @@ (IF accessLevel = None THEN EmptyDict ELSE [accessLevel |-> accessLevel[1]])
MentionInputs ==
  {One(Paragraph(<<Leaf("mention", MentionAttrs(text, userType, accessLevel))>>)) :
     text \in {None, Some(<<>>), Some(<<"b">>), Some(<<"b", SP, "c">>)},
     userType \in {None, Some(<<"c">>)},
     accessLevel \in {None, Some(<<"d">>)}}

\* Docs with no children: content empty or absent, version absent or 0..MaxVersion.
MaxVersion == 2
EmptyDocs ==
  {[type |-> "doc", content |-> <<>>], [type |-> "doc"]}
    \cup {[type |-> "doc", version |-> v, content |-> <<>>] : v \in 0..MaxVersion}
    \cup {[type |-> "doc", version |-> v] : v \in 0..MaxVersion}
EmptyDocInputs == {One(d) : d \in EmptyDocs}

\* A nested-table extension outside any table (rendered inline, with the
\* nested document between the extension's markers): at the root, the sole
\* child of a doc, and followed in the doc by a paragraph.
InlineInputs ==
  {One(NestedTable), One(Doc(<<NestedTable>>)), One(Doc(<<NestedTable, Word("z")>>))}

\* Docs whose children are a list and then a paragraph or a heading; the
\* list is flat or holds a nested list.
Followers == {Word("b"), Heading(2, <<"b">>)}
FollowedInputs ==
  {One(Doc(<<l, f>>)) :
     l \in ListsOf(2, "bulletList") \cup ListsOf(2, "orderedList"), f \in Followers}

\* Lists with an item of two paragraphs, "a" then "b": at the root, and as
\* the list of the item "c" of a list of the same kind.
ListKinds == {"bulletList", "orderedList"}
TwoParagraphs(kind) == Node(kind, <<Node("listItem", <<Word("a"), Word("b")>>)>>)
MultiInputs ==
  {One(TwoParagraphs(kind)) : kind \in ListKinds}
    \cup {One(Node(kind, <<Item("c", <<TwoParagraphs(kind)>>)>>)) : kind \in ListKinds}

\* A list of one item "a" that holds a list of one item "b": every pair of
\* outer and inner kind.
Nested(outer, inner) == Node(outer, <<Item("a", <<Node(inner, <<Item("b", <<>>)>>)>>)>>)
MixedInputs == {One(Nested(outer, inner)) : outer \in ListKinds, inner \in ListKinds}

\* Tables with a cell spanning rows.  The cell (colspan width, rowspan
\* height) lies in the first row after "before" plain cells and before one
\* more; the rows it reaches into hold the plain cells of the columns it
\* leaves free, and the "after" rows below its last a plain cell in every
\* column.
MaxRowspan == 3
PlainRow(n) == Row([k \in 1..n |-> SpanCell("a", None, None)])
RowspanTable(before, width, height, after) ==
  Table(<<Row([k \in 1..before |-> SpanCell("a", None, None)]
                \o <<SpanCell("b", IF width = 1 THEN None ELSE Some(width), Some(height)),
                     SpanCell("c", None, None)>>)>>
          \o [k \in 1..(height - 1) |-> PlainRow(before + 1)]
          \o [k \in 1..after |-> PlainRow(before + width + 1)])
\* Two cells spanning rows, of three rows and of two, with a column between.
TwoSpanTable ==
  Table(<<Row(<<SpanCell("a", None, Some(3)), SpanCell("b", None, None),
                SpanCell("c", None, Some(2))>>),
          PlainRow(1), PlainRow(2), PlainRow(3)>>)
RowspanTables ==
  {RowspanTable(before, width, height, after) :
     before \in 0..1, width \in 1..2, height \in 2..MaxRowspan, after \in 0..1}
    \cup {TwoSpanTable}
RowspanInputs == {One(t) : t \in RowspanTables}

\* A status in a paragraph: the text, and each of color and localId absent or
\* given.
StatusAttrs(color, localId) ==
  [text |-> <<"a">>]
    @@ (IF color = None THEN EmptyDict ELSE [color |-> color[1]])
    @@ (IF localId = None THEN EmptyDict ELSE [localId |-> localId[1]])
StatusInputs ==
  {One(Paragraph(<<Leaf("status", StatusAttrs(color, localId))>>)) :
     color \in {None, Some(<<"neutral">>)}, localId \in {None, Some(<<"b">>)}}

\* The children of a table cell whose rendering holds line breaks: two
\* paragraphs, a paragraph with a hard break, a list of two items, a list
\* between paragraphs, and a nested table before and after a paragraph.
BreakingContents ==
  { <<Word("a"), Word("b")>>,
    <<Paragraph(<<Text(<<"a">>), [type |-> "hardBreak"], Text(<<"b">>)>>)>>,
    <<Node("bulletList", <<Item("a", <<>>), Item("b", <<>>)>>)>>,
    <<Word("a"), Node("orderedList", <<Item("a", <<>>), Item("b", <<>>)>>), Word("b")>>,
    <<Word("s"), NestedTable>>,
    <<NestedTable, Word("s")>> }

\* Tables of two rows of one cell, a tableCell or a tableHeader over a tableCell.
CellTables ==
  {Table(<<Row(<<Node(kind, upper)>>), Row(<<Node("tableCell", lower)>>)>>) :
     kind \in {"tableCell", "tableHeader"},
     upper \in BreakingContents, lower \in BreakingContents}
CellInputs == {One(t) : t \in CellTables}

TripInputs ==
  MarkInputs \cup BlankInputs \cup KindInputs \cup BadInputs \cup MissingInputs
    \cup NestedInputs \cup SpanInputs \cup ListInputs
    \cup HeadingInputs \cup MentionInputs \cup EmptyDocInputs
    \cup InlineInputs \cup FollowedInputs \cup MultiInputs \cup MixedInputs
    \cup RowspanInputs \cup StatusInputs \cup CellInputs

(***************************************************************************)
(* The inputs of the calls on one ADFMD instance                            *)
(***************************************************************************)
\* The number of calls on the instance.
MaxCalls == 3

\* A table with a nested table in each of its two cells.
TwinTable == Table(<<Row(<<Cell(<<NestedTable>>), Cell(<<Word("s"), NestedTable>>)>>)>>)

SessionTrees ==
  {One(SoleTable), Many(<<SiblingTable, SoleTable>>), Many(<<TwinTable, SoleTable>>),
   One(Word("a"))}

\* The text of a table of three columns: a cell spanning two and one more.
SpanText ==
  module_to_markdown(
    One(Table(<<Row(<<Branch("tableCell", [colspan |-> 2], <<Word("a")>>),
                      Cell(<<Word("b")>>)>>)>>))).text

\* The text of a table with a nested table: the reference and the deferred block.
BlockText == module_to_markdown(One(SoleTable)).text

\* The same table alone: a reference to a block the document does not hold.
RefText == SubSeq(BlockText, 1, Find(BlockText, <<NL, OPEN, "nested-table", ":">>, 1) - 1)

SessionTexts == {SpanText, BlockText, RefText}

(***************************************************************************)
(* State                                                                   *)
(*                                                                         *)
(* adfmd  the ADFMD instance the calls of a session are made on            *)
(* log    the calls made on it: [op, arg, before, result], before the      *)
(*        instance when the call began                                     *)
(* x      the input tree of a round trip                                   *)
(* pc     the position of the round trip                                   *)
(* node   the result of ADFNode.from_dict(x)                               *)
(* md     the result of to_markdown(x)                                     *)
(* back   the result of from_markdown(md)                                  *)
(* md2    the result of to_markdown(back)                                  *)
(* scan   the scan of _parse_blocks over the lines of a text: the index of *)
(*        the next line and the nodes appended so far                      *)
(***************************************************************************)
VARIABLES adfmd, log, x, pc, node, md, back, md2, scan

vars == <<adfmd, log, x, pc, node, md, back, md2, scan>>

\* The value of a result before its call has been made.
Pending == [ok |-> FALSE, err |-> "Pending", msg |-> "Pending"]

\* The scan before a call of from_markdown has begun.
Idle == [i |-> 0, nodes |-> <<>>]

(***************************************************************************)
(* Calls on one ADFMD instance                                             *)
(***************************************************************************)
Init ==
  /\ adfmd = ADFMD_init
  /\ log = <<>>
  /\ x = One(Word("a"))
  /\ pc = "session"
  /\ node = Pending
  /\ md = Pending
  /\ back = Pending
  /\ md2 = Pending
  /\ scan = Idle

\* adfmd.to_markdown(tree) on the instance
ToMarkdown(tree) ==
  /\ pc = "session"
  /\ Len(log) < MaxCalls
  /\ log' = Append(log, [op |-> "to_markdown", arg |-> tree, before |-> adfmd,
                         result |-> to_markdown(adfmd, tree)])
  /\ UNCHANGED <<adfmd, x, pc, node, md, back, md2, scan>>

\* adfmd.from_markdown(text) on the instance
FromMarkdown(text) ==
  /\ pc = "session"
  /\ Len(log) < MaxCalls
  /\ \E r \in {from_markdown(adfmd, text)} :
         /\ adfmd' = WithParser(adfmd, r.self)
         /\ log' = Append(log, [op |-> "from_markdown", arg |-> text, before |-> adfmd,
                                result |-> Returned(r)])
  /\ UNCHANGED <<x, pc, node, md, back, md2, scan>>

Next ==
  \/ \E tree \in SessionTrees : ToMarkdown(tree)
  \/ \E text \in SessionTexts : FromMarkdown(text)

Spec == Init /\ [][Next]_vars

(***************************************************************************)
(* One round trip with the module-level functions: each call on a new      *)
(* ADFMD instance                                                          *)
(***************************************************************************)
TripInit ==
  /\ adfmd = ADFMD_init
  /\ log = <<>>
  /\ x \in TripInputs
  /\ pc = "start"
  /\ node = Pending
  /\ md = Pending
  /\ back = Pending
  /\ md2 = Pending
  /\ scan = Idle

\* ADFNode.from_dict(x)
FromDict ==
  /\ pc # "session"
  /\ node = Pending
  /\ ~x.isList
  /\ node' = from_dict(x.v[1])
  /\ UNCHANGED <<adfmd, log, x, pc, md, back, md2, scan>>

\* md = adfmd.to_markdown(x)
Render ==
  /\ pc = "start"
  /\ md' = module_to_markdown(x)
  /\ pc' = "rendered"
  /\ UNCHANGED <<adfmd, log, x, node, back, md2, scan>>

\* back = adfmd.from_markdown(md)
Parse ==
  /\ pc = "rendered"
  /\ md.ok
  /\ back' = module_from_markdown(md.text)
  /\ pc' = "parsed"
  /\ UNCHANGED <<adfmd, log, x, node, md, md2, scan>>

\* md2 = adfmd.to_markdown(back)
ReRender ==
  /\ pc = "parsed"
  /\ back.ok
  /\ md2' = module_to_markdown(back.v)
  /\ pc' = "rerendered"
  /\ UNCHANGED <<adfmd, log, x, node, md, back, scan>>

TripNext == FromDict \/ Render \/ Parse \/ ReRender

TripSpec == TripInit /\ [][TripNext]_vars

(***************************************************************************)
(* Markdown written by hand and given to from_markdown.  The input x of    *)
(* such a call is the text with the parts it was put together from.        *)
(***************************************************************************)
\* The marks an ADF:text marker lists: none (no marker) up to MaxListed.
MaxListed == 2
ListedKinds == {"strong", "underline", "link"}
ListedMarks == UNION {[1..n -> ListedKinds] : n \in 0..MaxListed}

\* The Markdown syntax around the inner text: none, **, * and ~~, with the
\* mark each stands for.
Wrappers == {<<>>, <<"*", "*">>, <<"*">>, <<"~", "~">>}
WrapperMark(wrapper) ==
  CASE wrapper = <<>> -> {}
    [] wrapper = <<"*", "*">> -> {"strong"}
    [] wrapper = <<"*">> -> {"em"}
    [] wrapper = <<"~", "~">> -> {"strike"}

\* [label](u)
LinkText(label) == <<"[", label, "]", "(", "u", ")">>
Inners == {<<"a">>, LinkText("u"), LinkText("a")}

\* <!-- ADF:text:marks="..." -->inner<!-- /ADF:text -->
InMarker(listed, inner) ==
  IF listed = <<>> THEN inner
  ELSE <<OPEN, "text", ":", "marks", "=", QUOTE>>
         \o JoinWith(<<",">>, [k \in 1..Len(listed) |-> <<listed[k]>>])
         \o <<QUOTE, SP, CLOSE>> \o inner \o <<ENDOPEN, "text", SP, CLOSE>>

SpanCases ==
  {[form |-> "span", listed |-> listed, wrapper |-> wrapper, inner |-> inner,
    text |-> InMarker(listed, wrapper \o inner \o wrapper)] :
     listed \in ListedMarks, wrapper \in Wrappers, inner \in Inners}

\* The markers _parse_blocks takes for the start of a block.
BlockMarkers ==
  {"doc", "panel", "expand", "nestedExpand", "table", "mediaSingle", "mediaGroup",
   "nested-table", "extension"}

\* A start marker with no end marker, after a paragraph or first, before one
\* paragraph or two.
OpenCases ==
  {[form |-> "open", kind |-> kind, before |-> before, after |-> after,
    text |-> before \o <<OPEN, kind, SP, CLOSE, NL>> \o after] :
     kind \in BlockMarkers, before \in {<<>>, <<"a", NL, NL>>},
     after \in {<<"b">>, <<"b", NL, NL, "c">>}}

\* The markers _parse_inlines knows.
InlineMarkers == {"text", "status", "mention", "date", "emoji", "mediaInline", "extension"}

\* A line with an inline start marker and no end marker: text before the
\* marker, after it, or both.
InlineOpenCases ==
  {[form |-> "inline", kind |-> kind, before |-> p[1], after |-> p[2],
    text |-> p[1] \o <<OPEN, kind, SP, CLOSE>> \o p[2]] :
     kind \in InlineMarkers,
     p \in ({<<>>, <<"a">>, <<"a", SP>>} \X {<<>>, <<"b">>, <<SP, "b">>}) \ {<< <<>>, <<>> >>}}

TextInputs == SpanCases \cup OpenCases \cup InlineOpenCases

TextInit ==
  /\ adfmd = ADFMD_init
  /\ log = <<>>
  /\ x \in TextInputs
  /\ pc = "text"
  /\ node = Pending
  /\ md = Pending
  /\ back = Pending
  /\ md2 = Pending
  /\ scan = Idle

\* back = adfmd.from_markdown(x.text)
ParseText ==
  /\ pc = "text"
  /\ back' = module_from_markdown(x.text)
  /\ pc' = "read"
  /\ UNCHANGED <<adfmd, log, x, node, md, md2, scan>>

\* md2 = adfmd.to_markdown(back)
RenderRead ==
  /\ pc = "read"
  /\ back.ok
  /\ md2' = module_to_markdown(back.v)
  /\ pc' = "written"
  /\ UNCHANGED <<adfmd, log, x, node, md, back, scan>>

TextNext == ParseText \/ RenderRead

TextSpec == TextInit /\ [][TextNext]_vars

(***************************************************************************)
(* md2adf.py: the while loop of _parse_blocks, one iteration a step.       *)
(* from_markdown(x.text) runs the loop over the lines of the text from     *)
(* index 0 and returns when the index reaches their number.                *)
(***************************************************************************)
\* The lines of a text: at most MaxLines of them.
MaxLines == 3

\* A word, list items, a list prefix with nothing after it (bullet, ordered,
\* indented, quoted), a blank line, the start marker of a doc and
\* unterminated inline syntax.
ScanLines ==
  { <<"a">>,
    <<"-", SP, "a">>, <<"-", SP>>,
    <<"1", ".", SP, "a">>, <<"1", ".", SP>>,
    <<SP, SP, "-", SP>>,
    <<>>,
    <<">", SP, "-", SP>>,
    <<OPEN, "doc", SP, CLOSE>>,
    <<"*", "*", "a">> }

ScanInputs ==
  {[form |-> "lines", text |-> JoinWith(<<NL>>, lines)] :
     lines \in UNION {[1..n -> ScanLines] : n \in 0..MaxLines}}

\* lines = markdown.splitlines()
ScanLinesOf == splitlines(x.text)

\* The iteration of the loop at each line of each text, run by the parser of
\* a new instance (no line holds a table, so the parser's fields stay as they
\* are).
BlockStepAt ==
  [text \in {input.text : input \in ScanInputs} |->
     [k \in 1..Len(splitlines(text)) |-> BlockStep(NewParser, splitlines(text), k)]]

\* What from_markdown returns for each text.
ReturnedAt ==
  [text \in {input.text : input \in ScanInputs} |-> module_from_markdown(text)]

ScanInit ==
  /\ adfmd = ADFMD_init
  /\ log = <<>>
  /\ x \in ScanInputs
  /\ pc = "scan"
  /\ node = Pending
  /\ md = Pending
  /\ back = Pending
  /\ md2 = Pending
  /\ scan = [i |-> 1, nodes |-> <<>>]

\* One iteration of "while i < end" in _parse_blocks.  An iteration that
\* leaves the index where it was, or whose inner call of _parse_blocks never
\* returns, leaves the scan where it is: the loop is at the same line again.
ScanStep ==
  /\ pc = "scan"
  /\ scan.i <= Len(ScanLinesOf)
  /\ LET step == BlockStepAt[x.text][scan.i]
     IN  scan' = IF step.ok THEN [i |-> step.i, nodes |-> scan.nodes \o step.nodes]
                 ELSE scan
  /\ UNCHANGED <<adfmd, log, x, pc, node, md, back, md2>>

\* "return nodes, i" of _parse_blocks, and parse and from_markdown return.
ScanReturn ==
  /\ pc = "scan"
  /\ scan.i > Len(ScanLinesOf)
  /\ back' = ReturnedAt[x.text]
  /\ pc' = "done"
  /\ UNCHANGED <<adfmd, log, x, node, md, md2, scan>>

ScanNext == ScanStep \/ ScanReturn

ScanSpec == ScanInit /\ [][ScanNext]_vars

\* A call that has begun keeps running: the interpreter executes the next
\* iteration of the loop as long as there is one.
ScanLive == ScanSpec /\ WF_vars(ScanNext)

(***************************************************************************)
(* md2adf.py: the order of the keys of the dicts from_markdown returns.    *)
(* A dict of the model is a record and has no key order; the order of a    *)
(* dict of the program is the sequence of its keys.                        *)
(***************************************************************************)
NODE_KEY_ORDER(type) ==
  CASE type = "doc" -> <<"type", "version", "content">>
    [] type = "text" -> <<"type", "text", "marks">>
    [] type \in {"paragraph", "bulletList", "orderedList", "listItem", "blockquote",
                 "mediaGroup", "caption"} -> <<"type", "content">>
    [] type \in {"heading", "codeBlock", "panel", "expand", "nestedExpand", "mediaSingle",
                 "table", "tableRow", "tableCell", "tableHeader"} ->
         <<"type", "attrs", "content">>
    [] type \in {"rule", "hardBreak"} -> <<"type">>
    [] type \in {"status", "mention", "emoji", "date", "inlineCard", "mediaInline",
                 "extension"} -> <<"type", "attrs">>
    [] type = "media" -> <<"type", "attrs", "marks">>

ATTR_KEY_ORDER(type) ==
  CASE type = "heading" -> <<"level">>
    [] type = "codeBlock" -> <<"language">>
    [] type = "panel" -> <<"panelType">>
    [] type \in {"expand", "nestedExpand"} -> <<"title">>
    [] type = "table" -> <<"layout", "isNumberColumnEnabled", "width", "displayMode">>
    [] type \in {"tableCell", "tableHeader"} -> <<"colspan", "rowspan", "colwidth", "background">>
    [] type = "status" -> <<"text", "color">>
    [] type = "mention" -> <<"id", "text", "userType", "accessLevel">>
    [] type = "emoji" -> <<"shortName", "id", "text">>
    [] type = "date" -> <<"timestamp">>
    [] type \in {"media", "mediaInline"} -> <<"id", "type", "collection", "alt", "width", "height">>
    [] type = "mediaSingle" -> <<"layout", "width", "widthType">>
    [] type = "extension" -> <<"extensionType", "extensionKey", "text", "parameters">>
    [] OTHER -> <<>>

PARAMETER_KEY_ORDER == <<"reason", "adf", "ref">>
MARK_KEY_ORDER == <<"type", "attrs">>

\* _order_dict_by_keys on the keys of data in their insertion order: the
\* keys of key_order that data has, then the other keys of data as inserted.
_order_dict_by_keys(data, key_order) ==
  SelectSeq(key_order, LAMBDA key : key \in SeqToSet(data))
    \o SelectSeq(data, LAMBDA key : key \notin SeqToSet(key_order))

\* The order in which the parser inserts the keys of the dict of a node:
\* {"type": ..., "content": ...}, then node["attrs"] or doc_node["version"],
\* for the kinds it builds so; the literal's order for the others.
InsertionOrder(type) ==
  CASE type = "doc" -> <<"type", "content", "version">>
    [] type \in {"codeBlock", "panel", "expand", "nestedExpand", "table", "tableCell",
                 "tableHeader", "mediaSingle"} -> <<"type", "content", "attrs">>
    [] type = "text" -> <<"type", "text", "marks">>
    [] type \in {"media", "mediaInline"} -> <<"type", "attrs", "marks">>
    [] OTHER -> <<"type", "attrs", "content">>

\* The keys of a dict the parser built for a node, as inserted.
InsertedKeys(n) == SelectSeq(InsertionOrder(n.type), LAMBDA key : key \in DOMAIN n)

\* The keys of a node of the tree parse returns: _order_node has ordered them.
OrderedKeys(n) == _order_dict_by_keys(InsertedKeys(n), NODE_KEY_ORDER(n.type))

\* The keys of a node inside the string json.dumps made of a dict the parser
\* built: json.dumps writes the keys as inserted.
DumpedKeys(n) == InsertedKeys(n)

(***************************************************************************)
(* Properties                                                              *)
(***************************************************************************)
\* The positions of a round trip at which md, back and md2 hold the result
\* of their call.
Rendered == pc \in {"rendered", "parsed", "rerendered"}
Parsed == pc \in {"parsed", "rerendered"}
ReRendered == pc = "rerendered"

\* The calls of a session, by operation.
RenderCalls == {i \in 1..Len(log) : log[i].op = "to_markdown"}
ParseCalls == {i \in 1..Len(log) : log[i].op = "from_markdown"}

\* The paragraph a marked text node comes back as: the same text, the same
\* marks in the canonical order.
MarkedBack(tree) ==
  LET t == tree.v[1].content[1]
  IN  One(Paragraph(<<Marked(t.text, _normalize_marks(t.marks))>>))

\* C1: a paragraph of one text node with one mark or a pair of marks renders,
\* and the text parses back to a paragraph whose only child is a text node
\* with the same text and the same marks in the canonical order.
C1_MarksRoundTrip ==
  x \in MarkInputs =>
    /\ Rendered => md.ok
    /\ Parsed => back = Ok(MarkedBack(x))

\* C2: rendering the parse of a rendering gives the rendering again: the
\* text parses, the second to_markdown does not raise and returns the text of
\* the first.
C2_Idempotence ==
  /\ Parsed /\ md.ok => back.ok
  /\ ReRendered => md2.ok /\ md2.text = md.text

\* The instance with the nested-table map of its parser emptied.
Cleared(self) ==
  WithParser(self, [self.registry_md2adf.parser EXCEPT !._nested_tables = EmptyDict])

\* C3: every from_markdown call of a session returns what a call with the
\* same text on a new instance returns, and two calls with the same text on
\* the one instance return the same, whatever was parsed between them.
C3_ParseDeterminism ==
  \A i \in ParseCalls :
    /\ log[i].result = module_from_markdown(log[i].arg)
    /\ \A j \in ParseCalls : log[j].arg = log[i].arg => log[j].result = log[i].result

\* C4: between the calls the parser of the instance holds no nested-table
\* block, and every from_markdown call returns what it returns with no block
\* of an earlier call at hand: a reference is resolved against the blocks of
\* its own text only.
C4_NestedTablesScopedToParse ==
  /\ adfmd.registry_md2adf.parser._nested_tables = EmptyDict
  /\ \A i \in ParseCalls :
       log[i].result = Returned(from_markdown(Cleared(log[i].before), log[i].arg))

\* C5: two to_markdown calls of a session with the same tree return the same
\* text and leave the same counter, whatever calls were made between them.
C5_RenderDeterminism ==
  \A i \in RenderCalls : \A j \in RenderCalls :
    log[i].arg = log[j].arg => log[i].result = log[j].result

\* C5 witness: a tree with a nested table is rendered, then another tree with
\* nested tables, then the first again; every call returns text with
\* references.
C5_Witness ==
  \E i \in RenderCalls : \E k \in RenderCalls : \E j \in RenderCalls :
    /\ i < k /\ k < j
    /\ log[i].arg = log[j].arg
    /\ log[k].arg # log[i].arg
    /\ log[i].result.ok /\ log[k].result.ok /\ log[j].result.ok
    /\ log[i].result.count > 0 /\ log[k].result.count > 0

\* The message of the ValueError raised for the required attribute of a kind.
RequiredMessage(kind) ==
  CASE kind = "heading" -> "Level is required for heading nodes"
    [] kind = "mention" -> "ID is required for mention nodes"
    [] kind = "inlineCard" -> "URL is required for inlineCard nodes"
    [] kind = "date" -> "Timestamp is required for date nodes"

\* C6: a well-formed tree with a node of any of the 29 kinds is accepted by
\* ADFNode.from_dict and rendered by to_markdown: neither raises.
C6_EveryKindRenders ==
  x \in KindInputs =>
    /\ node # Pending => node.ok
    /\ Rendered => md.ok

\* C7: for a tree with a node of an unsupported type, at the root or below it
\* in a content sequence, ADFNode.from_dict raises ValueError('Unsupported
\* node type') and to_markdown returns no text.
C7_UnsupportedDescendantRaises ==
  x \in BadInputs =>
    /\ node # Pending =>
         ~node.ok /\ node.err = "ValueError" /\ node.msg = "Unsupported node type"
    /\ Rendered => ~md.ok

\* C8: for a heading, mention, inlineCard or date whose required attribute is
\* absent (no attrs, attrs null, attrs without the key), from_dict raises the
\* ValueError that names the attribute and produces no node.
C8_MissingRequiredAttribute ==
  \A kind \in RequiredKinds : \A form \in MissingForms :
    x = One(MissingTree(kind, form)) /\ node # Pending =>
      ~node.ok /\ node.err = "ValueError" /\ node.msg = RequiredMessage(kind)

\* An empty paragraph, as given (content empty) or as parsed (no content).
IsEmptyParagraph(n) ==
  n.type = "paragraph" /\ (Has(n, "content") => n.content = <<>>)

\* The number of empty paragraphs of a document.
EmptyCount(tree) ==
  Cardinality({i \in 1..Len(tree.v[1].content) : IsEmptyParagraph(tree.v[1].content[i])})

\* C9: a document with k empty paragraphs between two non-empty ones comes
\* back from from_markdown(to_markdown(doc)) as a document with the two
\* paragraphs first and last and exactly k empty paragraphs between them.
C9_BlankParagraphsRoundTrip ==
  x \in BlankInputs /\ Parsed =>
    /\ back.ok
    /\ ~back.v.isList
    /\ back.v.v[1].type = "doc"
    /\ Len(back.v.v[1].content) = EmptyCount(x) + 2
    /\ EmptyCount(back.v) = EmptyCount(x)

\* The reference a cell holds for its nested table, and the opening of the
\* deferred block of the reference.
RefMarker == <<"[", "*", "*">> \o RefId(1) \o <<"*", "*", "]", "(", "#">> \o RefId(1) \o <<")">>
BlockMarker == StartMarker("nested-table", <<Attr("ref", RefId(1))>>)

\* The extension nodes of a parsed tree.
RECURSIVE ExtensionsOf(_)
ExtensionsOf(n) ==
  (IF n.type = "extension" THEN {n} ELSE {})
    \cup (IF Has(n, "content")
          THEN UNION {ExtensionsOf(n.content[i]) : i \in 1..Len(n.content)}
          ELSE {})

\* C10: an outer table with a nested-table extension in its cell, at the root
\* or inside a doc, renders; the text holds the reference inside the cell and
\* the deferred block after the outer table; the text parses to a tree with
\* an extension node whose parameters.adf holds the nested document.
C10_NestedTableRoundTrip ==
  x \in NestedInputs =>
    /\ Rendered =>
         /\ md.ok
         /\ LET ref == Find(md.text, RefMarker, 1)
                cell_end == Find(md.text, EndMarker("tableCell"), 1)
                table_end == Find(md.text, EndMarker("table"), 1)
                block == Find(md.text, BlockMarker, 1)
            IN  /\ 0 < ref /\ ref < cell_end
                /\ 0 < table_end /\ table_end < block
    /\ Parsed =>
         /\ back.ok
         /\ LET found == UNION {ExtensionsOf(back.v.v[i]) : i \in 1..Len(back.v.v)}
            IN  /\ found # {}
                /\ \A e \in found :
                     /\ Has(e, "attrs")
                     /\ Has(e.attrs, "parameters")
                     /\ Has(e.attrs.parameters, "adf")
                     /\ e.attrs.parameters.adf = json_dumps(NestedDoc)

\* The table a round trip of a single table node starts from and arrives at.
TableIn == x.v[1]
TableBack == back.v.v[1]

\* The colspan and rowspan of a cell, an absent one counting as 1.
CellSpan(cell, key) ==
  IF "attrs" \in DOMAIN cell /\ key \in DOMAIN cell.attrs THEN cell.attrs[key] ELSE 1

\* Row by row and cell by cell: the cell's text, colspan and rowspan.
CellsOf(table) ==
  [r \in 1..Len(table.content) |->
    [c \in 1..Len(table.content[r].content) |->
      LET cell == table.content[r].content[c]
      IN  <<cell.content[1].content[1].text, CellSpan(cell, "colspan"),
            CellSpan(cell, "rowspan")>>]]

\* Every cell of the table carries both colspan and rowspan.
ExplicitSpans(table) ==
  \A r \in 1..Len(table.content) : \A c \in 1..Len(table.content[r].content) :
    LET cell == table.content[r].content[c]
    IN  "attrs" \in DOMAIN cell /\ {"colspan", "rowspan"} \subseteq DOMAIN cell.attrs

HasSpan(table, key) ==
  \E r \in 1..Len(table.content) : \E c \in 1..Len(table.content[r].content) :
    CellSpan(table.content[r].content[c], key) > 1

\* C11: a table with cells of colspan > 1, of rowspan > 1 or of both comes
\* back from to_markdown then from_markdown with the same number of rows, the
\* same cells in each row in the same order, and the colspan and rowspan of
\* every cell unchanged, an absent one counting as 1 and written on every
\* cell of the table that comes back.
C11_SpansRoundTrip ==
  (x \in SpanInputs /\ Parsed) =>
    /\ md.ok /\ back.ok
    /\ ~back.v.isList /\ Len(back.v.v) = 1
    /\ TableBack.type = "table"
    /\ CellsOf(TableBack) = CellsOf(TableIn)
    /\ ExplicitSpans(TableBack)

\* C11 witness: a table with a colspan and a rowspan went through the round trip.
C11_Witness ==
  /\ x \in SpanInputs /\ Parsed /\ back.ok
  /\ HasSpan(TableIn, "colspan") /\ HasSpan(TableIn, "rowspan")
  /\ \E r \in 1..Len(TableIn.content) : \E c \in 1..Len(TableIn.content[r].content) :
       "attrs" \notin DOMAIN TableIn.content[r].content[c]

\* The lines of a rendered table that hold cells: the rows and the separator.
RowLines(text) == SelectSeq(splitlines(text), LAMBDA line : StartsWith(line, <<"|">>))

\* The cell slots of a row line: the pipes but the last.
Slots(line) == Len(SelectSeq(line, LAMBDA a : a = "|")) - 1

\* The columns of row r: the colspans of its cells plus the colspans of the
\* cells of earlier rows whose rowspan still reaches row r.
ColumnsOf(table, r) ==
  LET row(q) == table.content[q].content
      own == [c \in 1..Len(row(r)) |-> CellSpan(row(r)[c], "colspan")]
      covering(q) ==
        [c \in 1..Len(row(q)) |->
          IF CellSpan(row(q)[c], "rowspan") > r - q
          THEN CellSpan(row(q)[c], "colspan") ELSE 0]
  IN  Sum(own) + Sum([q \in 1..(r - 1) |-> Sum(covering(q))])

\* The sums of all rows agree.
ConsistentGrid(table) ==
  \A r \in 1..Len(table.content) : ColumnsOf(table, r) = ColumnsOf(table, 1)

\* The cells laid out row by row, left to right, each at the first column of
\* its row that no cell has taken: the <<row, column>> pairs taken, and
\* whether no cell had to lie over a pair that was taken.
RECURSIVE Laid(_, _, _, _, _)
Laid(table, r, c, col, taken) ==
  IF r > Len(table.content) THEN [ok |-> TRUE, taken |-> taken]
  ELSE IF c > Len(table.content[r].content) THEN Laid(table, r + 1, 1, 0, taken)
  ELSE LET cell == table.content[r].content[c]
           first == Min({k \in col..(col + Cardinality(taken)) : <<r, k>> \notin taken})
           area == {<<r + i, first + j>> :
                      i \in 0..(CellSpan(cell, "rowspan") - 1),
                      j \in 0..(CellSpan(cell, "colspan") - 1)}
       IN  IF area \cap taken # {} THEN [ok |-> FALSE, taken |-> taken]
           ELSE Laid(table, r, c + 1, first + CellSpan(cell, "colspan"), taken \cup area)

\* The cells tile the columns 0..C-1 of every row, none over another.
TilesGrid(table) ==
  LET laid == Laid(table, 1, 1, 0, {})
  IN  /\ laid.ok
      /\ \A r \in 1..Len(table.content) :
           {p[2] : p \in {q \in laid.taken : q[1] = r}} = 0..(ColumnsOf(table, 1) - 1)

\* Every row line and the separator of the rendered table have C slots.
SlotsAre(text, table) ==
  /\ Len(RowLines(text)) = Len(table.content) + 1
  /\ \A k \in 1..Len(RowLines(text)) : Slots(RowLines(text)[k]) = ColumnsOf(table, 1)

\* C12 as stated: for a table in each row of which the colspans of the cells
\* plus the columns still covered by rowspans of earlier rows sum to the same
\* C, and with no pipe in a cell text, every rendered row line and the dash
\* separator have exactly C cell slots between the outer pipes.
C12_SlotsPerRow ==
  (x \in SpanInputs /\ Rendered /\ ConsistentGrid(TableIn)) =>
    md.ok /\ SlotsAre(md.text, TableIn)

\* C12 amended: the same for the tables whose cells tile a grid of C columns,
\* no cell lying over a column that a rowspan of an earlier row covers.
C12_SlotsPerGridRow ==
  (x \in SpanInputs /\ Rendered /\ ConsistentGrid(TableIn) /\ TilesGrid(TableIn)) =>
    md.ok /\ SlotsAre(md.text, TableIn)

\* C12 witness: a rendered grid in which a rowspan of the first row covers a
\* column of the second, whose line is filled with an empty slot.
C12_Witness ==
  /\ x \in SpanInputs /\ Rendered /\ md.ok
  /\ ConsistentGrid(TableIn) /\ TilesGrid(TableIn)
  /\ HasSpan(TableIn, "rowspan")
  /\ Len(TableIn.content[2].content) < ColumnsOf(TableIn, 1)
  /\ \A c \in 1..Len(TableIn.content[2].content) :
       CellSpan(TableIn.content[2].content[c], "colspan") = 1

\* What a round trip of a list is to keep: the kinds of the lists, their
\* items in order, the text of each item and the list an item holds.
RECURSIVE ShapeOf(_)
ShapeOf(n) ==
  IF n.type = "text" THEN <<"text", n.text>>
  ELSE <<n.type, [k \in 1..Len(n.content) |-> ShapeOf(n.content[k])]>>

\* The levels of lists in a list.
RECURSIVE ListDepth(_)
ListDepth(n) ==
  IF n.type \notin {"bulletList", "orderedList", "listItem"} THEN 0
  ELSE LET below == {ListDepth(n.content[k]) : k \in 1..Len(n.content)}
       IN  (IF n.type = "listItem" THEN 0 ELSE 1) + Max(below \cup {0})

\* C13: a bulletList or orderedList nested up to 3 levels, each listItem one
\* non-empty paragraph optionally followed by one nested list (bullet in
\* bullet; bullet or ordered in ordered), comes back from to_markdown then
\* from_markdown with the same list kinds, items, order and nesting.
C13_ListsRoundTrip ==
  (x \in ListInputs /\ Parsed) =>
    /\ md.ok /\ back.ok
    /\ ~back.v.isList /\ Len(back.v.v) = 1
    /\ ShapeOf(back.v.v[1]) = ShapeOf(x.v[1])

\* C13 witness: an ordered list holding an ordered list holding a bullet list
\* went through the round trip.
C13_Witness ==
  /\ x \in ListInputs /\ Parsed /\ back.ok
  /\ ListDepth(x.v[1]) = 3
  /\ x.v[1].type = "orderedList"
  /\ \E i \in 1..Len(x.v[1].content) :
       /\ Len(x.v[1].content[i].content) = 2
       /\ x.v[1].content[i].content[2].type = "orderedList"
       /\ \E j \in 1..Len(x.v[1].content[i].content[2].content) :
            LET item == x.v[1].content[i].content[2].content[j]
            IN  Len(item.content) = 2 /\ item.content[2].type = "bulletList"

\* min(max(level, 1), 6)
Clamped(level) == Min({Max({level, 1}), 6})

\* C14: a heading renders as exactly min(max(level, 1), 6) "#", one space,
\* its rendered children and a blank-line terminator (which to_markdown strips
\* at the end of its result), and parsing that text gives a heading with the
\* clamped level and the same text: levels 0, 6 and 7 come back as 1, 6 and 6.
C14_HeadingLevelClamped ==
  (x \in HeadingInputs) =>
    LET heading == x.v[1]
        text == heading.content[1].text
        hashes == [k \in 1..Clamped(heading.attrs.level) |-> "#"]
    IN  /\ Rendered =>
             /\ md.ok
             /\ md.text = hashes \o <<SP>> \o text
                            \o (IF x.isList THEN <<NL, NL, "b">> ELSE <<>>)
        /\ Parsed =>
             /\ back.ok
             /\ back.v.isList = x.isList
             /\ back.v.v[1].type = "heading"
             /\ back.v.v[1].attrs = [level |-> Clamped(heading.attrs.level)]
             /\ Len(back.v.v[1].content) = 1
             /\ back.v.v[1].content[1].text = text

\* C14 witness: a heading of level 7 before a paragraph came back.
C14_Witness ==
  /\ x \in HeadingInputs /\ Parsed /\ back.ok
  /\ x.isList /\ x.v[1].attrs.level = 7

\* The text is a start marker of the kind, the inner text, and the end marker.
WrapsIn(text, kind, inner) ==
  LET closes == {p \in 1..Len(text) : text[p] = CLOSE}
  IN  /\ closes # {}
      /\ SubSeq(text, 1, 3) = <<OPEN, kind, ":">>
      /\ SubSeq(text, Min(closes) + 1, Len(text)) = inner \o <<ENDOPEN, kind, SP, CLOSE>>

\* C19: a mention without display text renders as an ADF:mention marker
\* around "@mention(<id>)" and parses back with the same id and no text
\* attribute; a mention with display text renders that text between the
\* markers and parses back with id, text, userType and accessLevel unchanged.
C19_MentionRoundTrip ==
  (x \in MentionInputs) =>
    LET attrs == x.v[1].content[1].attrs
        shown == "text" \in DOMAIN attrs /\ attrs.text # <<>>
        mention == back.v.v[1].content[1]
    IN  /\ Rendered =>
             /\ md.ok
             /\ WrapsIn(md.text, "mention",
                        IF shown THEN attrs.text ELSE <<"@", "mention", "(">> \o attrs.id \o <<")">>)
        /\ Parsed =>
             /\ back.ok /\ ~back.v.isList
             /\ back.v.v[1].type = "paragraph" /\ Len(back.v.v[1].content) = 1
             /\ mention.type = "mention"
             /\ mention.attrs.id = attrs.id
             /\ IF shown THEN mention.attrs = attrs ELSE "text" \notin DOMAIN mention.attrs

\* C19 witness: a mention with display text, userType and accessLevel came back.
C19_Witness ==
  /\ x \in MentionInputs /\ Parsed /\ back.ok
  /\ DOMAIN x.v[1].content[1].attrs = {"id", "text", "userType", "accessLevel"}
  /\ x.v[1].content[1].attrs.text = <<"b", SP, "c">>

\* C19 witness of the other case: a mention with no text attribute came back.
C19_WitnessNoText ==
  /\ x \in MentionInputs /\ Parsed /\ back.ok
  /\ "text" \notin DOMAIN x.v[1].content[1].attrs

\* C20: a doc with no children renders to just the ADF:doc start marker (with
\* the version when the doc has one) and the end marker, and from_markdown
\* returns from that text a single doc node with the same version and an
\* empty content.
C20_EmptyDocRoundTrip ==
  (x \in EmptyDocInputs) =>
    LET doc == x.v[1]
        versioned == "version" \in DOMAIN doc
        version == IF versioned
                   THEN <<":", "version", "=", QUOTE, Digits[doc.version + 1], QUOTE>>
                   ELSE <<>>
    IN  /\ Rendered =>
             /\ md.ok
             /\ md.text = <<OPEN, "doc">> \o version \o <<SP, CLOSE>>
                            \o <<NL, NL>> \o <<ENDOPEN, "doc", SP, CLOSE>>
        /\ Parsed =>
             /\ back.ok /\ ~back.v.isList /\ Len(back.v.v) = 1
             /\ back.v.v[1].type = "doc"
             /\ back.v.v[1].content = <<>>
             /\ IF versioned
                THEN "version" \in DOMAIN back.v.v[1] /\ back.v.v[1].version = doc.version
                ELSE DOMAIN back.v.v[1] = {"type", "content"}

\* C20 witness: a doc of version 1 with an empty content came back.
C20_Witness ==
  /\ x = One([type |-> "doc", version |-> 1, content |-> <<>>])
  /\ Parsed /\ back.ok

\* The positions of a call of from_markdown on a written text at which
\* back holds its result.
Read == pc \in {"read", "written"}

\* The nodes of the paragraph a span text is parsed into.
SpanNodes == back.v.v[1].content

\* The types of the marks of a node, in their order.
MarkTypes(n) == [k \in 1..Len(n.marks) |-> n.marks[k].type]

\* The priority the spec gives the mark types.
MarkPriority ==
  <<"strong", "em", "code", "strike", "underline", "textColor", "backgroundColor",
    "subsup", "link">>
PriorityOf(type) == CHOOSE k \in 1..Len(MarkPriority) : MarkPriority[k] = type

\* C18: the marks list of every text node from_markdown returns is sorted by
\* priority and holds no mark type twice, also when an ADF:text marker lists a
\* mark the Markdown syntax applies as well, or lists the same mark twice.
C18_MarksSortedAndUnique ==
  (x \in SpanCases /\ Read) =>
    /\ back.ok
    /\ \A k \in 1..Len(SpanNodes) :
         SpanNodes[k].type = "text" =>
           LET types == MarkTypes(SpanNodes[k])
           IN  /\ \A i, j \in 1..Len(types) :
                    i < j => PriorityOf(types[i]) <= PriorityOf(types[j])
               /\ \A i, j \in 1..Len(types) : i # j => types[i] # types[j]

\* The marks around the inner text of a span text: the one the Markdown
\* syntax stands for and those the ADF:text marker lists.
Enclosing(case) ==
  WrapperMark(case.wrapper) \cup {case.listed[k] : k \in 1..Len(case.listed)}

\* C15: a link [label](url) becomes an inlineCard only if the label equals
\* the url and no mark applies to it, neither one of the Markdown syntax nor
\* one of an enclosing ADF:text marker; otherwise it becomes a text node with
\* the link mark and all the enclosing marks, none dropped.
C15_LinkOrInlineCard ==
  (x \in SpanCases /\ x.inner # <<"a">> /\ Read) =>
    /\ back.ok
    /\ Len(SpanNodes) = 1
    /\ LET n == SpanNodes[1]
           label == x.inner[2]
           bare == label = "u" /\ Enclosing(x) = {}
       IN  /\ n.type = "inlineCard" => bare
           /\ ~bare =>
                /\ n.type = "text"
                /\ n.text = <<label>>
                /\ Enclosing(x) \cup {"link"}
                     \subseteq {n.marks[k].type : k \in 1..Len(n.marks)}

\* A paragraph of the one word.
IsWord(n, a) ==
  /\ n.type = "paragraph"
  /\ Len(n.content) = 1
  /\ n.content[1].type = "text"
  /\ n.content[1].text = <<a>>

\* C16: after a block-level start marker (doc, panel, expand, nestedExpand,
\* table, mediaSingle, mediaGroup, nested-table, extension) with no matching
\* end marker, from_markdown raises no error and reads the lines after the
\* marker as ordinary blocks of the enclosing scope, not as the content of a
\* node of the marker's kind.
C16_UnterminatedMarkerIsText ==
  (x \in OpenCases /\ Read) =>
    /\ back.ok
    /\ \A k \in 1..Len(back.v.v) : back.v.v[k].type # x.kind
    /\ \E k \in 1..Len(back.v.v) : IsWord(back.v.v[k], "b")
    /\ "c" \in SeqToSet(x.after) => \E k \in 1..Len(back.v.v) : IsWord(back.v.v[k], "c")

\* The keys follow the order: those the order lists stand in it.
FollowsOrder(keys, key_order) ==
  \A i, j \in 1..Len(keys) :
    (i < j /\ keys[i] \in SeqToSet(key_order) /\ keys[j] \in SeqToSet(key_order)) =>
      \E p, q \in 1..Len(key_order) : p < q /\ key_order[p] = keys[i] /\ key_order[q] = keys[j]

\* The orders in which a set of keys can have been inserted.
Insertions(keys) ==
  {s \in [1..Cardinality(keys) -> keys] : \A i, j \in 1..Cardinality(keys) : i # j => s[i] # s[j]}

\* A node and the nodes below it through content.
RECURSIVE NodesOf(_)
NodesOf(n) ==
  {n} \cup (IF "content" \in DOMAIN n
            THEN UNION {NodesOf(n.content[i]) : i \in 1..Len(n.content)}
            ELSE {})

\* The documents in the parameters.adf of the extensions of the tree.
DumpedDocs(tree) ==
  {e.attrs.parameters.adf.json :
     e \in {n \in UNION {NodesOf(tree[i]) : i \in 1..Len(tree)} :
              /\ n.type = "extension"
              /\ "parameters" \in DOMAIN n.attrs
              /\ "adf" \in DOMAIN n.attrs.parameters}}

\* C17: in every tree from_markdown returns, the keys of every node, of every
\* attrs map and of every mark follow the canonical order, and so do the keys
\* of every node inside the JSON string of an extension's parameters.adf (the
\* keys of a doc there are type, version, content).
C17_CanonicalKeyOrder ==
  (x \in NestedInputs /\ Parsed /\ back.ok) =>
    /\ \A n \in UNION {NodesOf(back.v.v[i]) : i \in 1..Len(back.v.v)} :
         /\ FollowsOrder(OrderedKeys(n), NODE_KEY_ORDER(n.type))
         /\ "attrs" \in DOMAIN n =>
              \A inserted \in Insertions(DOMAIN n.attrs) :
                FollowsOrder(_order_dict_by_keys(inserted, ATTR_KEY_ORDER(n.type)),
                             ATTR_KEY_ORDER(n.type))
         /\ (n.type = "extension" /\ "parameters" \in DOMAIN n.attrs) =>
              \A inserted \in Insertions(DOMAIN n.attrs.parameters) :
                FollowsOrder(_order_dict_by_keys(inserted, PARAMETER_KEY_ORDER),
                             PARAMETER_KEY_ORDER)
         /\ "marks" \in DOMAIN n =>
              \A k \in 1..Len(n.marks) :
                \A inserted \in Insertions(DOMAIN n.marks[k]) :
                  FollowsOrder(_order_dict_by_keys(inserted, MARK_KEY_ORDER), MARK_KEY_ORDER)
    /\ \A doc \in DumpedDocs(back.v.v) : \A n \in NodesOf(doc) :
         FollowsOrder(DumpedKeys(n), NODE_KEY_ORDER(n.type))

\* The part of C17 about the tree outside the JSON strings.
C17_ReturnedTreeOrdered ==
  (x \in NestedInputs /\ Parsed /\ back.ok) =>
    \A n \in UNION {NodesOf(back.v.v[i]) : i \in 1..Len(back.v.v)} :
      FollowsOrder(OrderedKeys(n), NODE_KEY_ORDER(n.type))

\* The nodes of the roots that from_markdown returned.
BackNodes == UNION {NodesOf(back.v.v[i]) : i \in 1..Len(back.v.v)}

\* A doc whose child is a nested-table extension rendered inline: a doc
\* marker pair lies inside the doc's own marker pair.
DocInDoc == x \in InlineInputs /\ x.v[1].type = "doc"

\* C21: the lines of a block-level start marker are consumed up to the end
\* marker that matches it, nesting counted: a doc that holds an inline
\* nested-table extension (which holds a doc) comes back as one doc with as
\* many children as it had, and no end-marker line is left over as the text
\* of a paragraph.
C21_OuterBlockEndsAtOwnMarker ==
  (DocInDoc /\ Parsed /\ md.ok) =>
    /\ back.ok /\ ~back.v.isList
    /\ back.v.v[1].type = "doc"
    /\ Len(back.v.v[1].content) = Len(x.v[1].content)
    /\ \A n \in BackNodes : n.type = "text" => ENDOPEN \notin SeqToSet(n.text)

\* The line a paragraph or a heading of one text node renders to.
BlockLine(n) ==
  IF n.type = "heading" THEN Repeat(<<"#">>, n.attrs.level) \o <<SP>> \o n.content[1].text
  ELSE n.content[1].text

\* The kinds of the children of a node, in order.
KindsOf(n) == [k \in 1..Len(n.content) |-> n.content[k].type]

\* C22: in the text to_markdown renders for a doc, each child block starts on
\* a line of its own: the paragraph or heading that follows a bulletList or
\* an orderedList is a line of the text by itself (not the tail of the last
\* list item's line), and from_markdown(to_markdown(doc)) has the doc's
\* sequence of block kinds.
C22_BlocksStartOnOwnLine ==
  (x \in FollowedInputs) =>
    /\ Rendered =>
         /\ md.ok
         /\ \E i \in 1..Len(splitlines(md.text)) :
              splitlines(md.text)[i] = BlockLine(x.v[1].content[2])
    /\ Parsed =>
         /\ back.ok /\ ~back.v.isList
         /\ back.v.v[1].type = "doc"
         /\ KindsOf(back.v.v[1]) = KindsOf(x.v[1])

\* The call of from_markdown has returned.
Done == pc = "done"

\* C23: from_markdown terminates on every text: each iteration of the scan of
\* _parse_blocks moves the line index forward (also at a line that is only a
\* list prefix, "- " or "N. "), so every call that has begun returns.
C23_FromMarkdownTerminates == <>Done

\* The scan, run to its end, appended the nodes _parse_blocks returns.
ScanAgrees ==
  Done => /\ back.ok
          /\ scan.nodes = _parse_blocks(NewParser, ScanLinesOf, 1).nodes

\* The lines of the rendered text.
MdLines == splitlines(md.text)

\* "- " or "1. "
FirstPrefix(kind) == IF kind = "orderedList" THEN <<"1", ".", SP>> ELSE <<"-", SP>>

\* The level the item of two paragraphs lies at (0: the root list).
MultiLevel == IF Len(x.v[1].content[1].content) = 2 /\ x.v[1].content[1].content[2].type \in ListKinds
              THEN 1 ELSE 0

\* C24: the list line of a listItem with several paragraph children carries
\* the rendering of its first paragraph child, after two spaces of indent per
\* level and "- " or "N. ".
C24_FirstParagraphOnItemLine ==
  (x \in MultiInputs /\ Rendered) =>
    /\ md.ok
    /\ \E k \in 1..Len(MdLines) :
         MdLines[k] = Repeat(<<SP, SP>>, MultiLevel) \o FirstPrefix(x.v[1].type) \o <<"a">>

\* C25: a list nested directly in a listItem is rendered one level of indent
\* deeper on the line after the item's line, for each of the four pairs of
\* outer and inner kind (bulletList or orderedList in bulletList or
\* orderedList): no nested list is left out of the text.
C25_NestedListRendered ==
  (x \in MixedInputs /\ Rendered) =>
    /\ md.ok
    /\ MdLines = << FirstPrefix(x.v[1].type) \o <<"a">>,
                    <<SP, SP>> \o FirstPrefix(x.v[1].content[1].content[2].type) \o <<"b">> >>

\* C26: when _parse_inlines meets an inline start marker that has no end
\* marker, the texts of the nodes it returns, joined in order, are the input
\* text: no character (the text before the marker in particular) is lost or
\* comes twice.
C26_UnterminatedInlineKeepsText ==
  (x.form = "inline" /\ Read) =>
    /\ back.ok /\ ~back.v.isList
    /\ back.v.v[1].type = "paragraph"
    /\ \A k \in 1..Len(back.v.v[1].content) : back.v.v[1].content[k].type = "text"
    /\ Cat([k \in 1..Len(back.v.v[1].content) |-> back.v.v[1].content[k].text]) = x.text

\* The positions of a text at which a pattern begins.
Positions(s, pat) == {p \in 1..Len(s) : IsAt(s, pat, p)}

\* The cross-reference marker of a nested table (the start marker of the
\* extension left in the cell) up to its id, and with the id of number k.
CrossRefHead ==
  <<OPEN, "extension", ":">> \o Attr("extensionType", NESTED_TABLE_TYPE) \o <<",">>
    \o Attr("extensionKey", NESTED_TABLE_KEY) \o <<",", "ref", "=", QUOTE>>
CrossRef(k) == CrossRefHead \o RefId(k) \o <<QUOTE, SP, CLOSE>>

\* The start marker of a deferred nested-table block up to its id, and with
\* the id of number k.
DeferredHead == <<OPEN, "nested-table", ":", "ref", "=", QUOTE>>
Deferred(k) == DeferredHead \o RefId(k) \o <<QUOTE, SP, CLOSE>>

\* The k-th cross-reference of the text carries nested-table-k, and each of
\* these ids heads exactly one deferred block, which are all the blocks.
SequentialIds(text) ==
  LET refs == Positions(text, CrossRefHead)
      n == Cardinality(refs)
  IN  /\ \A p \in refs : IsAt(text, CrossRef(Cardinality({q \in refs : q <= p})), p)
      /\ Cardinality(Positions(text, DeferredHead)) = n
      /\ \A k \in 1..n : Cardinality(Positions(text, Deferred(k))) = 1

\* The number of cross-references in the text a call returned.
RefCount(i) == Cardinality(Positions(log[i].result.text, CrossRefHead))

\* C27: in the text of one to_markdown call the ids of the nested tables of
\* table cells are nested-table-1, nested-table-2, ... in the order met,
\* through all tables and all root nodes of the call; no id comes twice, each
\* is in exactly one cross-reference marker and heads exactly one deferred
\* nested-table block; the next to_markdown call numbers from 1 again.
C27_SequentialReferenceIds ==
  \A i \in RenderCalls :
    log[i].result.ok => SequentialIds(log[i].result.text)

\* C27 witness: a call rendered two root tables with three nested tables,
\* and a later call on the same instance rendered a table with one.
C27_Witness ==
  \E i \in RenderCalls : \E j \in RenderCalls :
    /\ i < j
    /\ log[i].result.ok /\ Len(log[i].arg.v) = 2 /\ RefCount(i) = 3
    /\ log[j].result.ok /\ RefCount(j) = 1

\* The cells of a table laid out row by row, each at the first column of its
\* row that no cell has taken: the <<row, column>> pairs taken, those a cell
\* covers in the rows below its own (below), and those it covers in its own
\* row to the right of its first column (beside).
RECURSIVE Layout(_, _, _, _, _)
Layout(table, r, c, col, acc) ==
  IF r > Len(table.content) THEN acc
  ELSE IF c > Len(table.content[r].content) THEN Layout(table, r + 1, 1, 0, acc)
  ELSE LET cell == table.content[r].content[c]
           w == CellSpan(cell, "colspan")
           h == CellSpan(cell, "rowspan")
           first == Min({k \in col..(col + Cardinality(acc.taken)) : <<r, k>> \notin acc.taken})
       IN  Layout(table, r, c + 1, first + w,
                  [taken |-> acc.taken \cup {<<r + i, first + j>> : i \in 0..(h - 1), j \in 0..(w - 1)},
                   below |-> acc.below \cup {<<r + i, first + j>> : i \in 1..(h - 1), j \in 0..(w - 1)},
                   beside |-> acc.beside \cup {<<r, first + j>> : j \in 1..(w - 1)}])

LayoutOf(table) == Layout(table, 1, 1, 0, [taken |-> {}, below |-> {}, beside |-> {}])

\* The slots of the line of row r of the rendered table, left to right (the
\* separator is the second line of the table).
RowSlots(text, r) ==
  LET line == RowLines(text)[IF r = 1 THEN 1 ELSE r + 1]
      parts == SplitOn(line, "|")
  IN  SubSeq(parts, 2, Len(parts) - 1)

\* C28: a cell with rowspan r >= 2 at the columns [c, c + colspan) of row i
\* gives each of the rows i+1 .. i+r-1 empty filler slots at exactly those
\* columns, and row i+r none: in every row line the empty slots are those of
\* the columns a cell of an earlier row still covers (and the columns a
\* colspan of the row itself continues over), every other slot holds a cell.
C28_RowspanFillers ==
  (x \in RowspanInputs /\ Rendered) =>
    /\ md.ok
    /\ Len(RowLines(md.text)) = Len(TableIn.content) + 1
    /\ \A r \in 1..Len(TableIn.content) :
         LET slots == RowSlots(md.text, r)
             layout == LayoutOf(TableIn)
         IN  /\ \A p \in layout.below : p[1] = r => p[2] + 1 <= Len(slots)
             /\ \A k \in 1..Len(slots) :
                  (slots[k] = <<>>) <=> (<<r, k - 1>> \in layout.below \cup layout.beside)

\* C28 witness: a table was rendered in which a cell of rowspan 3 covers two
\* rows and a row follows them.
C28_Witness ==
  /\ x = One(RowspanTable(1, 2, 3, 1))
  /\ Rendered /\ md.ok
  /\ RowSlots(md.text, 2)[2] = <<>> /\ RowSlots(md.text, 3)[3] = <<>>
  /\ RowSlots(md.text, 4)[2] # <<>>

\* The attributes of the ADF:status start marker the text begins with.
StatusMarkerAttrs(text) ==
  IF StartsWith(text, <<OPEN, "status", ":">>) /\ Find(text, <<SP, CLOSE>>, 1) > 0
  THEN _parse_attrs(SubSeq(text, 4, Find(text, <<SP, CLOSE>>, 1) - 1))
  ELSE EmptyDict

\* C29: every attribute a status node has (text, color, localId) is carried
\* in the ADF:status marker to_markdown renders, and
\* from_markdown(to_markdown(node)) is a status node with the same values of
\* the attributes.
C29_StatusRoundTrip ==
  (x \in StatusInputs) =>
    LET attrs == x.v[1].content[1].attrs
    IN  /\ Rendered =>
             /\ md.ok
             /\ \A key \in DOMAIN attrs :
                  /\ key \in DOMAIN StatusMarkerAttrs(md.text)
                  /\ StatusMarkerAttrs(md.text)[key] = attrs[key]
        /\ Parsed =>
             /\ back.ok /\ ~back.v.isList
             /\ back.v.v[1].type = "paragraph" /\ Len(back.v.v[1].content) = 1
             /\ back.v.v[1].content[1].type = "status"
             /\ back.v.v[1].content[1].attrs = attrs

\* The lines of the rendered table between its start marker (the first line
\* of the text) and its end marker: the row lines and the separator.
TableLines(text) ==
  LET lines == splitlines(text)
      last == Min({k \in 1..Len(lines) : lines[k] = EndMarker("table")} \cup {Len(lines) + 1})
  IN  SubSeq(lines, 2, last - 1)

\* The line of row r among them (the separator is the second).
TableLine(text, r) == TableLines(text)[IF r = 1 THEN 1 ELSE r + 1]

\* The number of times an atom of the set occurs in a line.
Count(line, atoms) == Len(SelectSeq(line, LAMBDA a : a \in atoms))

\* C30: the text rendered for a tableCell or a tableHeader holds no newline,
\* whatever its children (several paragraphs, hard breaks, lists,
\* nested-table references): every line break in it is a "<br/>", and each
\* table row is exactly one line of the output, holding the start and end
\* markers of all its cells.
C30_CellOnOneLine ==
  (x \in CellInputs /\ Rendered) =>
    /\ md.ok
    /\ Len(TableLines(md.text)) = Len(TableIn.content) + 1
    /\ \A r \in 1..Len(TableIn.content) :
         LET line == TableLine(md.text, r)
             cells == Len(TableIn.content[r].content)
         IN  /\ StartsWith(line, <<"|">>) /\ EndsWith(line, <<"|">>)
             /\ Count(SubSeq(line, 1, Len(line) - 1), {OPEN}) >= cells
             /\ IsAt(line, <<OPEN, TableIn.content[r].content[1].type>>, 3)
             /\ IsAt(line, EndMarker(TableIn.content[r].content[1].type) \o <<SP, "|">>,
                     Len(line) - 5)

\* C30 witness: a header cell of two paragraphs over a cell with a list was
\* rendered, with "<br/>" in both row lines.
C30_Witness ==
  /\ x = One(Table(<<Row(<<Node("tableHeader", <<Word("a"), Word("b")>>)>>),
                     Row(<<Node("tableCell",
                                <<Node("bulletList", <<Item("a", <<>>), Item("b", <<>>)>>)>>)>>)>>))
  /\ Rendered /\ md.ok
  /\ Count(TableLine(md.text, 1), {BR}) = 2
  /\ Count(TableLine(md.text, 2), {BR}) = 1

====
